---- MODULE Spec2Model ----
(***************************************************************************)
(* Sensor acquisition and gain calibration engine of the densitometer      *)
(* firmware (software/firmware/src/sensor.c).                              *)
(*                                                                         *)
(* Every C function is a small state machine with its own frame variable   *)
(* (gc, fb, gl, cd, rl, rt); a frame's pc is "idle" while the function is  *)
(* not active and "done" when it has returned and its caller has not yet   *)
(* picked the result up.  One action is one hardware interaction or one    *)
(* progress callback of the code together with the straight-line code      *)
(* around it.                                                              *)
(*                                                                         *)
(* float values are fixed-point integers in tenths (24.5 is 245); NaN is   *)
(* a value of its own for which every comparison is false, as in IEEE 754. *)
(***************************************************************************)
EXTENDS Integers, Sequences, FiniteSets, TLC

VARIABLES
    gc,        \* frame of sensor_gain_calibration
    fb,        \* frame of sensor_find_gain_brightness
    gl,        \* frame of sensor_gain_calibration_loop
    cd,        \* frame of sensor_gain_calibration_cooldown
    rl,        \* frame of sensor_raw_read_loop
    rt,        \* frame of sensor_read_target / sensor_read_target_raw
    hw,        \* photosensor and light source
    settings,  \* persisted calibration tables
    obs,       \* observations of the run: callbacks seen, writes made
    dm,        \* frame of the function of densitometer.c being called
    leds,     \* brightness of the reflection and transmission lights
    dens,      \* last densities measured
    ts,        \* task startup: main task, semaphore, started tasks
    pf,        \* a function without side effects: its arguments and result
    dlg        \* the slope calibration dialog of the desktop application

\* the state of densitometer.c
dvars == <<dm, leds, dens>>

vars == <<gc, fb, gl, cd, rl, rt, hw, settings, obs, dm, leds, dens, ts, pf, dlg>>

----------------------------------------------------------------------------
(* Bounds of the model *)

\* Raw sensor counts are delivered in multiples of RawUnit.
RawUnit == 1024
\* In the downward brightness search the sensor delivers a usable sample
\* within the first MaxMiss levels or at no level at all.
MaxMiss == 2
\* sensor_raw_read_loop on its own is run for counts 0..MaxLoopCount.
MaxLoopCount == 4
\* Cycle sequence numbers delivered by the sensor task are 1..MaxSeq.
MaxSeq == 6
\* A session makes at most MaxCalls calls of functions of densitometer.c.
MaxCalls == 2
\* Passes of a task's endless loop that are followed.
MaxPolls == 3

----------------------------------------------------------------------------
(* Program constants *)

NaN == -1000000

\* tsl2591.h (gain ranges of the data sheet, in tenths)
TSL2591_GAIN_MEDIUM_MIN == 220
TSL2591_GAIN_MEDIUM_TYP == 245
TSL2591_GAIN_MEDIUM_MAX == 270
TSL2591_GAIN_HIGH_MIN == 3600
TSL2591_GAIN_HIGH_TYP == 4000
TSL2591_GAIN_HIGH_MAX == 4400
TSL2591_GAIN_MAXIMUM_CH0_MIN == 88100
TSL2591_GAIN_MAXIMUM_CH0_TYP == 92000
TSL2591_GAIN_MAXIMUM_CH0_MAX == 95900
TSL2591_GAIN_MAXIMUM_CH1_MIN == 91000
TSL2591_GAIN_MAXIMUM_CH1_TYP == 99000
TSL2591_GAIN_MAXIMUM_CH1_MAX == 107000
\* saturation ceilings in raw counts
TSL2591_ANALOG_SATURATION == 37888
TSL2591_DIGITAL_SATURATION == 65535

SENSOR_TARGET_READ_ITERATIONS == 2
SENSOR_GAIN_CAL_READ_ITERATIONS == 5
SENSOR_GAIN_LED_CHECK_READ_ITERATIONS == 2
\* target factors in percent
LIGHT_CAL_CH0_TARGET_FACTOR == 98
GAIN_CAL_CH0_TARGET_FACTOR == 75
GAIN_CAL_BRIGHTNESS_LOW_MED == 128
\* light.h: the idle brightness the measurement procedures leave a light at
LIGHT_REFLECTION_IDLE == 8
LIGHT_TRANSMISSION_IDLE == 8

\* plus infinity of float
Inf == 2000000

TSL2591_LUX_DF == 408
TSL2591_LUX_GA == 1

Gains == <<"LOW", "MEDIUM", "HIGH", "MAXIMUM">>
GainRank(g) == CHOOSE k \in 1..4 : Gains[k] = g
Times == {100, 200, 300, 400, 500, 600}

----------------------------------------------------------------------------
(* float arithmetic *)

isnanf(x) == x = NaN
FLt(a, b) == a # NaN /\ b # NaN /\ a < b
FGt(a, b) == a # NaN /\ b # NaN /\ a > b
FLe(a, b) == a # NaN /\ b # NaN /\ a <= b
FMul(a, b) == IF a = NaN \/ b = NaN THEN NaN ELSE (a * b) \div 10
\* used with b # 0 only
FDiv(a, b) == IF a = NaN \/ b = NaN THEN NaN ELSE (a * 10) \div b
fabsf(a) == IF a = NaN THEN NaN ELSE IF a < 0 THEN 0 - a ELSE a
FSub(a, b) == IF a = NaN \/ b = NaN THEN NaN ELSE a - b

\* largest r with r^n <= p
IRoot(p, n) ==
    CHOOSE r \in 0..(TSL2591_DIGITAL_SATURATION \div RawUnit) :
        r ^ n <= p /\ (r + 1) ^ n > p

----------------------------------------------------------------------------
(* Photosensor task and light source (task_sensor.c, light.c) *)

HwIdle ==
    [running |-> FALSE, gain |-> "LOW", time |-> 100,
     light |-> "OFF", value |-> 0, pending |-> "NONE", pending_value |-> 0]

\* every change of the light put off to the next sensor cycle
sensor_set_light_mode_deferred(h, light, next_cycle, value) ==
    [h EXCEPT !.pending = light, !.pending_value = value]

\* sensor_set_light_mode(light, next_cycle, value)
sensor_set_light_mode(h, light, next_cycle, value) ==
    IF next_cycle
    THEN [h EXCEPT !.pending = light, !.pending_value = value]
    ELSE [h EXCEPT !.light = light,
                   !.value = IF light = "OFF" THEN 0 ELSE value,
                   !.pending = "NONE", !.pending_value = 0]

\* sensor_set_config(gain, time), when it succeeds
sensor_set_config(h, gain, time) == [h EXCEPT !.gain = gain, !.time = time]

sensor_start(h) == [h EXCEPT !.running = TRUE]
sensor_stop(h) == [h EXCEPT !.running = FALSE]

\* A sensor cycle completes: a light change requested for the next cycle
\* takes effect.
SensorCycle(h) ==
    IF h.pending = "NONE" THEN h
    ELSE [h EXCEPT !.light = h.pending,
                   !.value = IF h.pending = "OFF" THEN 0 ELSE h.pending_value,
                   !.pending = "NONE", !.pending_value = 0]

LightLit(h) == h.light # "OFF" /\ h.value > 0

SaturationLimit(time) ==
    IF time = 100 THEN TSL2591_ANALOG_SATURATION ELSE TSL2591_DIGITAL_SATURATION

\* The readings sensor_get_next_reading can deliver at integration time `time`:
\* a dark channel 0, a low and a high level (below the saturation limit of
\* the integration time), and a saturated channel 0.
HighLevel(time) == IF time = 100 THEN 32 * RawUnit ELSE 54 * RawUnit

Readings(time) ==
    { [ch0_val |-> 0,                     ch1_val |-> 2 * RawUnit,     time |-> time],
      [ch0_val |-> 2 * RawUnit,           ch1_val |-> 2 * RawUnit,     time |-> time],
      [ch0_val |-> HighLevel(time),       ch1_val |-> HighLevel(time), time |-> time],
      [ch0_val |-> SaturationLimit(time), ch1_val |-> 2 * RawUnit,     time |-> time] }

SaturatedReadings(time) ==
    { [ch0_val |-> SaturationLimit(time), ch1_val |-> 2 * RawUnit, time |-> time] }

\* the limit compared with > instead of >=
sensor_is_reading_saturated_above(reading) ==
    reading.ch0_val > SaturationLimit(reading.time)
        \/ reading.ch1_val > SaturationLimit(reading.time)

\* sensor_is_reading_saturated
sensor_is_reading_saturated(reading) ==
    LET limit == IF reading.time = 100 THEN TSL2591_ANALOG_SATURATION
                 ELSE TSL2591_DIGITAL_SATURATION
    IN  reading.ch0_val >= limit \/ reading.ch1_val >= limit

----------------------------------------------------------------------------
(* Observations *)

Terminal == {"DONE", "FAILED"}

\* The progress callback is invoked with `status` and answers `cont`.  The log
\* keeps one entry per run of equal statuses; a terminal status is always
\* logged.
Report(o, status, cont) ==
    [o EXCEPT
       !.cb_log = IF Len(@) > 0 /\ @[Len(@)] = status /\ status \notin Terminal
                  THEN @ ELSE Append(@, status),
       !.stop_seen = @ \/ ~cont]

\* A sensor configuration, a sensor reading or a light activation happens.
\* (idled: the run has executed its sensor_stop and light-off calls.)
\* (hw_used: some hardware access was made.)
HwUse(o) == [o EXCEPT !.hw_after_stop = @ \/ o.stop_seen, !.hw_used = TRUE]

\* The read loop receives a reading: rl_taken counts the readings of the
\* call, rl_sat_taken is the count at its first saturated reading (0: none).
Taken(o, reading) ==
    [o EXCEPT !.rl_taken = @ + 1,
              !.rl_sat_taken = IF @ = 0 /\ sensor_is_reading_saturated(reading)
                               THEN o.rl_taken + 1 ELSE @]

ObsInit ==
    [cb_log |-> <<>>, stop_seen |-> FALSE, hw_after_stop |-> FALSE,
     light_write |-> "none", gain_write |-> "none",
     rl_taken |-> 0, rl_sat_taken |-> 0, idled |-> FALSE, hw_used |-> FALSE]

----------------------------------------------------------------------------
(* sensor_raw_read_loop *)

RlIdle ==
    [pc |-> "idle", count |-> 0, want_ch1 |-> TRUE, i |-> 0,
     ch0_sum |-> 1, ch1_sum |-> 1, saturation |-> FALSE,
     ret |-> "osOK", ch0_avg |-> NaN, ch1_avg |-> NaN]

\* a call of sensor_raw_read_loop(count, &ch0_avg, want_ch1 ? &ch1_avg : NULL)
RlCall(count, want_ch1) ==
    [RlIdle EXCEPT !.pc = "begin", !.count = count, !.want_ch1 = want_ch1]

\* The sum of the logarithms of the readings is carried as the product of
\* the readings (in RawUnit counts) whose logarithm it is: logf(0) = -inf
\* is the product 0.
LogAdd(sum, val) == sum * (val \div RawUnit)

\* expf(sum / count): the geometric mean, rounded down to a whole RawUnit
GeoMean(sum, count) == 10 * RawUnit * IRoot(sum, count)

\* the result stored through ch0_avg / ch1_avg
RlAverage(saturation, sum, count) ==
    IF saturation THEN NaN ELSE GeoMean(sum, count)

\* The brightness search counting downward has gone MaxMiss levels without
\* a usable sample: from here on the sensor stays saturated.
ScanExhausted ==
    /\ fb.pc = "sample"
    /\ fb.start_brightness > fb.end_brightness
    /\ fb.start_brightness - fb.i >= MaxMiss

SensorReadings ==
    IF ScanExhausted THEN SaturatedReadings(hw.time) ELSE Readings(hw.time)

RlBreaksOnSaturationNever(reading) == FALSE
RlBreaksOnSaturation(reading) == sensor_is_reading_saturated(reading)

RL_Begin ==
    /\ rl.pc = "begin"
    /\ rl' = IF rl.count = 0
             THEN [rl EXCEPT !.pc = "done", !.ret = "osErrorParameter"]
             ELSE [rl EXCEPT !.pc = "loop"]
    /\ obs' = [obs EXCEPT !.rl_taken = 0, !.rl_sat_taken = 0]
    /\ UNCHANGED <<pf, dlg, dvars, ts, gc, fb, gl, cd, rt, hw, settings>>

\* one pass of the for loop: wait for the next reading and accumulate it
RL_Read ==
    /\ rl.pc = "loop"
    /\ rl.i < rl.count
    /\ \/ \* sensor_get_next_reading fails
          /\ rl' = [rl EXCEPT !.ret = "osErrorTimeout", !.pc = "finish"]
          /\ obs' = HwUse(obs)
          /\ hw' = hw
       \/ \E reading \in SensorReadings :
          /\ hw' = SensorCycle(hw)
          /\ obs' = Taken(HwUse(obs), reading)
          /\ rl' = IF RlBreaksOnSaturation(reading)
                   THEN [rl EXCEPT !.saturation = TRUE, !.pc = "finish"]
                   ELSE [rl EXCEPT
                           !.ch0_sum = LogAdd(@, reading.ch0_val),
                           !.ch1_sum = LogAdd(@, reading.ch1_val),
                           !.i = @ + 1,
                           !.pc = IF rl.i + 1 < rl.count THEN "loop" ELSE "finish"]
    /\ UNCHANGED <<pf, dlg, dvars, ts, gc, fb, gl, cd, rt, settings>>

RL_Finish ==
    /\ rl.pc = "finish"
    /\ rl' = IF rl.ret = "osOK"
             THEN [rl EXCEPT
                     !.ch0_avg = RlAverage(rl.saturation, rl.ch0_sum, rl.count),
                     !.ch1_avg = IF rl.want_ch1
                                 THEN RlAverage(rl.saturation, rl.ch1_sum, rl.count)
                                 ELSE @,
                     !.pc = "done"]
             ELSE [rl EXCEPT !.pc = "done"]
    /\ UNCHANGED <<pf, dlg, dvars, ts, gc, fb, gl, cd, rt, hw, settings, obs>>

----------------------------------------------------------------------------
(* sensor_gain_calibration_cooldown *)

CdIdle == [pc |-> "idle", i |-> 0, result |-> TRUE]
CdCall == [CdIdle EXCEPT !.pc = "run"]

CooldownStopsNever(cont) == FALSE
CooldownStops(cont) == ~cont

\* one pass of the loop: the COOLDOWN callback and the delay
CD_Step ==
    /\ cd.pc = "run"
    /\ \E cont \in BOOLEAN :
        /\ obs' = Report(obs, "COOLDOWN", cont)
        /\ cd' = IF CooldownStops(cont)
                 THEN [cd EXCEPT !.result = FALSE, !.pc = "done"]
                 ELSE [cd EXCEPT !.i = @ + 1,
                                 !.result = TRUE,
                                 !.pc = IF cd.i + 1 < 5 THEN "run" ELSE "done"]
    /\ UNCHANGED <<pf, dlg, dvars, ts, gc, fb, gl, rl, rt, hw, settings>>

----------------------------------------------------------------------------
(* sensor_find_gain_brightness *)

FbIdle ==
    [pc |-> "idle", gain |-> "LOW", time |-> 100,
     start_brightness |-> 0, end_brightness |-> 0, target_factor |-> 0,
     i |-> 0, closest_led |-> 0, closest_ch0 |-> NaN, ret |-> "osOK",
     tested |-> <<>>]

FbCall(gain, time, start_brightness, end_brightness, target_factor) ==
    [FbIdle EXCEPT !.pc = "begin", !.gain = gain, !.time = time,
                   !.start_brightness = start_brightness,
                   !.end_brightness = end_brightness,
                   !.target_factor = target_factor]

\* target_ch0, in tenths of a count (target_factor is in percent)
TargetCh0(time, target_factor) == (SaturationLimit(time) * target_factor) \div 10

\* counting upward with the sample that ends the scan selected
UpwardStepTakesLast(i, ch0_avg, target_ch0, closest) ==
    IF isnanf(ch0_avg) THEN [break |-> TRUE, closest |-> closest]
    ELSE IF closest.led = 0
    THEN [break |-> FALSE, closest |-> [led |-> i, ch0 |-> ch0_avg]]
    ELSE [break |-> ~FLt(fabsf(FSub(target_ch0, ch0_avg)),
                         fabsf(FSub(target_ch0, closest.ch0))),
          closest |-> [led |-> i, ch0 |-> ch0_avg]]

\* counting downward without the break at the first usable sample
DownwardStepGoesOn(i, ch0_avg, target_ch0, closest) ==
    IF ~isnanf(ch0_avg) /\ FLe(ch0_avg, target_ch0)
    THEN [break |-> FALSE, closest |-> [led |-> i, ch0 |-> ch0_avg]]
    ELSE [break |-> FALSE, closest |-> closest]

\* Counting upward: does the sample end the scan, and what is selected
\* after it.  closest is [led, ch0].
UpwardStep(i, ch0_avg, target_ch0, closest) ==
    IF isnanf(ch0_avg) THEN [break |-> TRUE, closest |-> closest]
    ELSE IF closest.led = 0
    THEN [break |-> FALSE, closest |-> [led |-> i, ch0 |-> ch0_avg]]
    ELSE LET cur_diff  == fabsf(FSub(target_ch0, ch0_avg))
             last_diff == fabsf(FSub(target_ch0, closest.ch0))
         IN  IF FLt(cur_diff, last_diff)
             THEN [break |-> FALSE, closest |-> [led |-> i, ch0 |-> ch0_avg]]
             ELSE [break |-> TRUE, closest |-> closest]

\* Counting downward: the first usable sample is selected and ends the scan.
DownwardStep(i, ch0_avg, target_ch0, closest) ==
    IF ~isnanf(ch0_avg) /\ FLe(ch0_avg, target_ch0)
    THEN [break |-> TRUE, closest |-> [led |-> i, ch0 |-> ch0_avg]]
    ELSE [break |-> FALSE, closest |-> closest]

\* the arguments are not checked
FindBrightnessArgsUnchecked(start_brightness, end_brightness, target_factor) == FALSE

\* if (start_brightness == 0 || start_brightness == end_brightness
\*     || isnanf(target_factor) || target_factor < 0.1F || target_factor > 1.0F)
FindBrightnessArgsInvalid(start_brightness, end_brightness, target_factor) ==
    \/ start_brightness = 0
    \/ start_brightness = end_brightness
    \/ isnanf(target_factor) \/ FLt(target_factor, 10) \/ FGt(target_factor, 100)

\* parameter validation, then the first LED callback
FB_Begin ==
    /\ fb.pc = "begin"
    /\ IF FindBrightnessArgsInvalid(fb.start_brightness, fb.end_brightness,
                                   fb.target_factor)
       THEN /\ fb' = [fb EXCEPT !.ret = "osErrorParameter", !.pc = "done"]
            /\ obs' = obs
       ELSE \E cont \in BOOLEAN :
            /\ obs' = Report(obs, "LED", cont)
            /\ fb' = IF cont THEN [fb EXCEPT !.pc = "config"]
                     ELSE [fb EXCEPT !.ret = "osError", !.pc = "done"]
    /\ UNCHANGED <<pf, dlg, dvars, ts, gc, gl, cd, rl, rt, hw, settings>>

FB_Config ==
    /\ fb.pc = "config"
    /\ obs' = HwUse(obs)
    /\ \E ok \in BOOLEAN :
        IF ok
        THEN /\ hw' = sensor_set_config(hw, fb.gain, fb.time)
             /\ fb' = [fb EXCEPT !.pc = "first"]
        ELSE /\ hw' = hw
             /\ fb' = [fb EXCEPT !.ret = "osError", !.pc = "exit"]
    /\ UNCHANGED <<pf, dlg, dvars, ts, gc, gl, cd, rl, rt, settings>>

\* the first reading at the new settings, or one of the two readings that
\* follow a brightness change: the reading itself is discarded
FB_Discard ==
    /\ fb.pc \in {"first", "discard1", "discard2"}
    /\ obs' = HwUse(obs)
    /\ \E ok \in BOOLEAN :
        IF ok
        THEN /\ hw' = SensorCycle(hw)
             /\ fb' = [fb EXCEPT !.pc = CASE fb.pc = "first" -> "cb_start"
                                        [] fb.pc = "discard1" -> "discard2"
                                        [] fb.pc = "discard2" -> "sample"]
             /\ rl' = IF fb.pc = "discard2"
                      THEN RlCall(SENSOR_GAIN_LED_CHECK_READ_ITERATIONS, FALSE)
                      ELSE rl
        ELSE /\ hw' = hw
             /\ fb' = [fb EXCEPT !.ret = "osErrorTimeout", !.pc = "exit"]
             /\ rl' = rl
    /\ UNCHANGED <<pf, dlg, dvars, ts, gc, gl, cd, rt, settings>>

\* the LED callback with the start brightness, and with the next brightness
\* after each level tested (followed by the settling delay)
FB_Callback ==
    /\ fb.pc \in {"cb_start", "cb_step"}
    /\ \E cont \in BOOLEAN :
        /\ obs' = Report(obs, "LED", cont)
        /\ fb' = IF ~cont THEN [fb EXCEPT !.ret = "osError", !.pc = "done"]
                 ELSE IF fb.pc = "cb_start"
                 THEN [fb EXCEPT !.i = fb.start_brightness, !.pc = "loop"]
                 ELSE [fb EXCEPT !.pc = "loop"]
    /\ UNCHANGED <<pf, dlg, dvars, ts, gc, gl, cd, rl, rt, hw, settings>>

\* while (i != end_brightness): request brightness i for the next cycle
FB_Loop ==
    /\ fb.pc = "loop"
    /\ IF fb.i # fb.end_brightness
       THEN /\ hw' = sensor_set_light_mode(hw, "TRANSMISSION", TRUE, fb.i)
            /\ obs' = HwUse(obs)
            /\ fb' = [fb EXCEPT !.pc = "discard1"]
       ELSE /\ hw' = hw
            /\ obs' = obs
            /\ fb' = [fb EXCEPT !.pc = "exit"]
    /\ UNCHANGED <<pf, dlg, dvars, ts, gc, gl, cd, rl, rt, settings>>

\* the read loop has returned: judge the sample; fb.tested keeps the levels
\* sampled and their averages
FB_Sample ==
    /\ fb.pc = "sample"
    /\ rl.pc = "done"
    /\ rl' = RlIdle
    /\ IF rl.ret # "osOK"
       THEN /\ fb' = [fb EXCEPT !.ret = rl.ret, !.pc = "exit"]
            /\ hw' = hw
       ELSE LET count_upward == fb.start_brightness < fb.end_brightness
                target_ch0 == TargetCh0(fb.time, fb.target_factor)
                closest == [led |-> fb.closest_led, ch0 |-> fb.closest_ch0]
                step == IF count_upward
                        THEN UpwardStep(fb.i, rl.ch0_avg, target_ch0, closest)
                        ELSE DownwardStep(fb.i, rl.ch0_avg, target_ch0, closest)
            IN  IF step.break
                THEN /\ fb' = [fb EXCEPT !.closest_led = step.closest.led,
                                         !.closest_ch0 = step.closest.ch0,
                                         !.tested = Append(@, [led |-> fb.i, ch0 |-> rl.ch0_avg]),
                                         !.pc = "exit"]
                     /\ hw' = hw
                ELSE /\ fb' = [fb EXCEPT !.closest_led = step.closest.led,
                                         !.closest_ch0 = step.closest.ch0,
                                         !.tested = Append(@, [led |-> fb.i, ch0 |-> rl.ch0_avg]),
                                         !.i = IF count_upward THEN (@ + 1) % 256
                                               ELSE (@ + 255) % 256,
                                         !.pc = "cb_step"]
                     /\ hw' = sensor_set_light_mode(hw, "OFF", FALSE, 0)
    /\ UNCHANGED <<pf, dlg, dvars, ts, gc, gl, cd, rt, settings, obs>>

\* after the do-while: turn off the LED and return
FB_Exit ==
    /\ fb.pc = "exit"
    /\ hw' = sensor_set_light_mode(hw, "OFF", FALSE, 0)
    /\ fb' = [fb EXCEPT !.pc = "done"]
    /\ UNCHANGED <<pf, dlg, dvars, ts, gc, gl, cd, rl, rt, settings, obs>>

----------------------------------------------------------------------------
(* sensor_gain_calibration_loop *)

GlIdle ==
    [pc |-> "idle", phase |-> "high", gain_low |-> "LOW", gain_high |-> "LOW",
     time |-> 100, led_brightness |-> 0, callback_status |-> "NONE",
     ret |-> "osOK",
     ch0_avg_high |-> NaN, ch1_avg_high |-> NaN,
     ch0_avg_low |-> NaN, ch1_avg_low |-> NaN,
     gain_ch0 |-> NaN, gain_ch1 |-> NaN]

GlCall(gain_low, gain_high, time, led_brightness, callback_status) ==
    [GlIdle EXCEPT !.pc = "begin", !.gain_low = gain_low, !.gain_high = gain_high,
                   !.time = time, !.led_brightness = led_brightness,
                   !.callback_status = callback_status]

\* the ratio stored through gain_ch0 / gain_ch1
GainRatio(avg_high, avg_low) ==
    IF FLe(avg_high, 0) \/ FLe(avg_low, 0) THEN 0 ELSE FDiv(avg_high, avg_low)

\* parameter validation, then the callback that opens the measurement
GL_Begin ==
    /\ gl.pc = "begin"
    /\ IF GainRank(gl.gain_low) >= GainRank(gl.gain_high)
       THEN /\ gl' = [gl EXCEPT !.ret = "osErrorParameter", !.pc = "done"]
            /\ obs' = obs
       ELSE \E cont \in BOOLEAN :
            /\ obs' = Report(obs, gl.callback_status, cont)
            /\ gl' = IF cont THEN [gl EXCEPT !.pc = "config"]
                     ELSE [gl EXCEPT !.ret = "osError", !.pc = "exit"]
    /\ UNCHANGED <<pf, dlg, dvars, ts, gc, fb, cd, rl, rt, hw, settings>>

\* sensor_set_config(gain_high, time), and later (gain_low, time)
GL_Config ==
    /\ gl.pc = "config"
    /\ obs' = HwUse(obs)
    /\ \E ok \in BOOLEAN :
        IF ok
        THEN /\ hw' = sensor_set_config(hw,
                        IF gl.phase = "high" THEN gl.gain_high ELSE gl.gain_low,
                        gl.time)
             /\ gl' = [gl EXCEPT !.pc = "discard1"]
        ELSE /\ hw' = hw
             /\ gl' = [gl EXCEPT !.ret = "osError", !.pc = "exit"]
    /\ UNCHANGED <<pf, dlg, dvars, ts, gc, fb, cd, rl, rt, settings>>

\* the first reading at the new settings is discarded, then the LED is
\* requested at the target brightness for the next cycle
GL_Discard1 ==
    /\ gl.pc = "discard1"
    /\ obs' = HwUse(obs)
    /\ \E ok \in BOOLEAN :
        IF ok
        THEN /\ hw' = sensor_set_light_mode(SensorCycle(hw), "TRANSMISSION", TRUE,
                                            gl.led_brightness)
             /\ gl' = [gl EXCEPT !.pc = "discard2"]
        ELSE /\ hw' = hw
             /\ gl' = [gl EXCEPT !.ret = "osErrorTimeout", !.pc = "exit"]
    /\ UNCHANGED <<pf, dlg, dvars, ts, gc, fb, cd, rl, rt, settings>>

\* the cycle that turns the LED on is discarded, then the read loop runs
GL_Discard2 ==
    /\ gl.pc = "discard2"
    /\ obs' = HwUse(obs)
    /\ \E ok \in BOOLEAN :
        IF ok
        THEN /\ hw' = SensorCycle(hw)
             /\ gl' = [gl EXCEPT !.pc = "read"]
             /\ rl' = RlCall(SENSOR_GAIN_CAL_READ_ITERATIONS, TRUE)
        ELSE /\ hw' = hw
             /\ gl' = [gl EXCEPT !.ret = "osErrorTimeout", !.pc = "exit"]
             /\ rl' = rl
    /\ UNCHANGED <<pf, dlg, dvars, ts, gc, fb, cd, rt, settings>>

\* the read loop has returned: keep its averages, turn off the LED and,
\* after the higher gain, start the cool down
GL_Read ==
    /\ gl.pc = "read"
    /\ rl.pc = "done"
    /\ rl' = RlIdle
    /\ IF rl.ret # "osOK"
       THEN /\ gl' = [gl EXCEPT !.ret = rl.ret, !.pc = "exit"]
            /\ hw' = hw
            /\ cd' = cd
       ELSE /\ hw' = sensor_set_light_mode(hw, "OFF", FALSE, 0)
            /\ IF gl.phase = "high"
               THEN /\ gl' = [gl EXCEPT !.ch0_avg_high = rl.ch0_avg,
                                        !.ch1_avg_high = rl.ch1_avg,
                                        !.pc = "cooldown"]
                    /\ cd' = CdCall
               ELSE /\ gl' = [gl EXCEPT !.ch0_avg_low = rl.ch0_avg,
                                        !.ch1_avg_low = rl.ch1_avg,
                                        !.pc = "exit"]
                    /\ cd' = cd
    /\ UNCHANGED <<pf, dlg, dvars, ts, gc, fb, rt, settings, obs>>

\* the cool down between the two measurements has returned
GL_Cooldown ==
    /\ gl.pc = "cooldown"
    /\ cd.pc = "done"
    /\ cd' = CdIdle
    /\ gl' = IF cd.result THEN [gl EXCEPT !.pc = "cb_low"]
             ELSE [gl EXCEPT !.ret = "osError", !.pc = "exit"]
    /\ UNCHANGED <<pf, dlg, dvars, ts, gc, fb, rl, rt, hw, settings, obs>>

\* the callback that opens the lower gain measurement
GL_LowCallback ==
    /\ gl.pc = "cb_low"
    /\ \E cont \in BOOLEAN :
        /\ obs' = Report(obs, gl.callback_status, cont)
        /\ gl' = IF cont THEN [gl EXCEPT !.phase = "low", !.pc = "config"]
                 ELSE [gl EXCEPT !.ret = "osError", !.pc = "exit"]
    /\ UNCHANGED <<pf, dlg, dvars, ts, gc, fb, cd, rl, rt, hw, settings>>

\* after the do-while: on success store the two ratios, and return
GL_Exit ==
    /\ gl.pc = "exit"
    /\ gl' = IF gl.ret = "osOK"
             THEN [gl EXCEPT
                     !.gain_ch0 = GainRatio(gl.ch0_avg_high, gl.ch0_avg_low),
                     !.gain_ch1 = GainRatio(gl.ch1_avg_high, gl.ch1_avg_low),
                     !.pc = "done"]
             ELSE [gl EXCEPT !.pc = "done"]
    /\ UNCHANGED <<pf, dlg, dvars, ts, gc, fb, cd, rl, rt, hw, settings, obs>>

----------------------------------------------------------------------------
(* sensor_gain_calibration *)

GcIdle ==
    [pc |-> "idle", ret |-> "osOK",
     measurement_led_brightness |-> 0, max_gain_led_brightness |-> 0,
     gain_med_ch0 |-> NaN, gain_med_ch1 |-> NaN,
     gain_high_ch0 |-> NaN, gain_high_ch1 |-> NaN,
     gain_max_ch0 |-> NaN, gain_max_ch1 |-> NaN]

\* the settings as stored before the run: the typical gains
PriorSettings ==
    [cal_gain |-> [ch0_medium |-> TSL2591_GAIN_MEDIUM_TYP,
                   ch1_medium |-> TSL2591_GAIN_MEDIUM_TYP,
                   ch0_high |-> TSL2591_GAIN_HIGH_TYP,
                   ch1_high |-> TSL2591_GAIN_HIGH_TYP,
                   ch0_maximum |-> TSL2591_GAIN_MAXIMUM_CH0_TYP,
                   ch1_maximum |-> TSL2591_GAIN_MAXIMUM_CH1_TYP],
     cal_light |-> [reflection |-> 128, transmission |-> 128],
     cal_reflection |-> [lo_d |-> NaN, lo_value |-> NaN,
                         hi_d |-> NaN, hi_value |-> NaN],
     cal_transmission |-> [zero_value |-> NaN, hi_d |-> NaN, hi_value |-> NaN]]

\* the measured ratio stored without the multiplier of the gain below
ChainGainRatioOnly(ratio, lower) == ratio

\* gain_high_ch0 *= gain_med_ch0;  gain_max_ch0 *= gain_high_ch0;
ChainGain(ratio, lower) == FMul(ratio, lower)

\* if (gain < MIN || gain > MAX) { gain = TYP; }
RangeCheck(gain, min, typ, max) ==
    IF FLt(gain, min) \/ FGt(gain, max) THEN typ ELSE gain

\* if (ret == osOK) { ...DONE... } else { ...FAILED... }
FinalStatus(ret) == IF ret = "osOK" THEN "DONE" ELSE "FAILED"

\* if (ret == osOK) { ...save... }
PersistsAlways(ret) == TRUE
Persists(ret) == ret = "osOK"

\* the status a gain-ratio measurement reports at each stage
StageStatusSwapped(pc) ==
    CASE pc = "cool1" -> "HIGH" [] pc = "cool2" -> "MEDIUM" [] pc = "cool4" -> "MAXIMUM"
StageStatus(pc) ==
    CASE pc = "cool1" -> "MEDIUM" [] pc = "cool2" -> "HIGH" [] pc = "cool4" -> "MAXIMUM"

\* the INIT callback, then the lights are set to their initial state
GC_Init ==
    /\ gc.pc = "init"
    /\ \E cont \in BOOLEAN :
        /\ obs' = Report(obs, "INIT", cont)
        /\ IF ~cont
           THEN /\ gc' = [gc EXCEPT !.ret = "osError", !.pc = "returned"]
                /\ hw' = hw
           ELSE /\ gc' = [gc EXCEPT !.pc = "config"]
                /\ hw' = sensor_set_light_mode(hw, "OFF", FALSE, 0)
    /\ UNCHANGED <<pf, dlg, dvars, ts, fb, gl, cd, rl, rt, settings>>

\* sensor_set_config(TSL2591_GAIN_MAXIMUM, TSL2591_TIME_100MS)
GC_Config ==
    /\ gc.pc = "config"
    /\ obs' = HwUse(obs)
    /\ \E ok \in BOOLEAN :
        IF ok
        THEN /\ hw' = sensor_set_config(hw, "MAXIMUM", 100)
             /\ gc' = [gc EXCEPT !.pc = "start"]
        ELSE /\ hw' = hw
             /\ gc' = [gc EXCEPT !.ret = "osError", !.pc = "status"]
    /\ UNCHANGED <<pf, dlg, dvars, ts, fb, gl, cd, rl, rt, settings>>

\* sensor_start(), the settling delay, and the call of the first
\* brightness search
GC_Start ==
    /\ gc.pc = "start"
    /\ obs' = HwUse(obs)
    /\ \E ok \in BOOLEAN :
        IF ok
        THEN /\ hw' = sensor_start(hw)
             /\ gc' = [gc EXCEPT !.pc = "find_meas"]
             /\ fb' = FbCall("HIGH", 200, 128, 64, LIGHT_CAL_CH0_TARGET_FACTOR)
        ELSE /\ hw' = hw
             /\ gc' = [gc EXCEPT !.ret = "osError", !.pc = "status"]
             /\ fb' = fb
    /\ UNCHANGED <<pf, dlg, dvars, ts, gl, cd, rl, rt, settings>>

\* a brightness search has returned: break on an error or on brightness 0,
\* else start the cool down
GC_Find ==
    /\ gc.pc \in {"find_meas", "find_max"}
    /\ fb.pc = "done"
    /\ fb' = FbIdle
    /\ LET led == IF fb.ret = "osOK" THEN fb.closest_led
                  ELSE IF gc.pc = "find_meas" THEN gc.measurement_led_brightness
                  ELSE gc.max_gain_led_brightness
           brk == fb.ret # "osOK" \/ led = 0
           g1 == IF gc.pc = "find_meas"
                 THEN [gc EXCEPT !.ret = fb.ret, !.measurement_led_brightness = led]
                 ELSE [gc EXCEPT !.ret = fb.ret, !.max_gain_led_brightness = led]
       IN  IF brk
           THEN /\ gc' = [g1 EXCEPT !.pc = "status"]
                /\ cd' = cd
           ELSE /\ gc' = [g1 EXCEPT !.pc = IF gc.pc = "find_meas" THEN "cool1"
                                           ELSE "cool4"]
                /\ cd' = CdCall
    /\ UNCHANGED <<pf, dlg, dvars, ts, gl, rl, rt, hw, settings, obs>>

\* a cool down has returned: break if it was stopped, else call what follows
GC_Cooldown ==
    /\ gc.pc \in {"cool1", "cool2", "cool3", "cool4"}
    /\ cd.pc = "done"
    /\ cd' = CdIdle
    /\ IF ~cd.result
       THEN /\ gc' = [gc EXCEPT !.ret = "osError", !.pc = "status"]
            /\ UNCHANGED <<gl, fb>>
       ELSE CASE gc.pc = "cool1" ->
                 /\ gc' = [gc EXCEPT !.pc = "medium"]
                 /\ gl' = GlCall("LOW", "MEDIUM", 600, GAIN_CAL_BRIGHTNESS_LOW_MED,
                                 StageStatus(gc.pc))
                 /\ fb' = fb
              [] gc.pc = "cool2" ->
                 /\ gc' = [gc EXCEPT !.pc = "high"]
                 /\ gl' = GlCall("MEDIUM", "HIGH", 200, gc.measurement_led_brightness,
                                 StageStatus(gc.pc))
                 /\ fb' = fb
              [] gc.pc = "cool3" ->
                 /\ gc' = [gc EXCEPT !.pc = "find_max"]
                 /\ fb' = FbCall("MAXIMUM", 200, 4, 16, GAIN_CAL_CH0_TARGET_FACTOR)
                 /\ gl' = gl
              [] gc.pc = "cool4" ->
                 /\ gc' = [gc EXCEPT !.pc = "maximum"]
                 /\ gl' = GlCall("HIGH", "MAXIMUM", 200, gc.max_gain_led_brightness,
                                 StageStatus(gc.pc))
                 /\ fb' = fb
    /\ UNCHANGED <<pf, dlg, dvars, ts, rl, rt, hw, settings, obs>>

\* a gain-ratio measurement has returned: break on an error, else chain the
\* ratio on the tier below, range-check it, and go on
GC_Loop ==
    /\ gc.pc \in {"medium", "high", "maximum"}
    /\ gl.pc = "done"
    /\ gl' = GlIdle
    /\ IF gl.ret # "osOK"
       THEN /\ gc' = [gc EXCEPT !.ret = gl.ret, !.pc = "status"]
            /\ cd' = cd
       ELSE CASE gc.pc = "medium" ->
                 /\ gc' = [gc EXCEPT
                      !.ret = gl.ret,
                      !.gain_med_ch0 = RangeCheck(gl.gain_ch0,
                          TSL2591_GAIN_MEDIUM_MIN, TSL2591_GAIN_MEDIUM_TYP,
                          TSL2591_GAIN_MEDIUM_MAX),
                      !.gain_med_ch1 = RangeCheck(gl.gain_ch1,
                          TSL2591_GAIN_MEDIUM_MIN, TSL2591_GAIN_MEDIUM_TYP,
                          TSL2591_GAIN_MEDIUM_MAX),
                      !.pc = "cool2"]
                 /\ cd' = CdCall
              [] gc.pc = "high" ->
                 /\ gc' = [gc EXCEPT
                      !.ret = gl.ret,
                      !.gain_high_ch0 = RangeCheck(ChainGain(gl.gain_ch0, gc.gain_med_ch0),
                          TSL2591_GAIN_HIGH_MIN, TSL2591_GAIN_HIGH_TYP,
                          TSL2591_GAIN_HIGH_MAX),
                      !.gain_high_ch1 = RangeCheck(ChainGain(gl.gain_ch1, gc.gain_med_ch1),
                          TSL2591_GAIN_HIGH_MIN, TSL2591_GAIN_HIGH_TYP,
                          TSL2591_GAIN_HIGH_MAX),
                      !.pc = "cool3"]
                 /\ cd' = CdCall
              [] gc.pc = "maximum" ->
                 /\ gc' = [gc EXCEPT
                      !.ret = gl.ret,
                      !.gain_max_ch0 = RangeCheck(ChainGain(gl.gain_ch0, gc.gain_high_ch0),
                          TSL2591_GAIN_MAXIMUM_CH0_MIN, TSL2591_GAIN_MAXIMUM_CH0_TYP,
                          TSL2591_GAIN_MAXIMUM_CH0_MAX),
                      !.gain_max_ch1 = RangeCheck(ChainGain(gl.gain_ch1, gc.gain_high_ch1),
                          TSL2591_GAIN_MAXIMUM_CH1_MIN, TSL2591_GAIN_MAXIMUM_CH1_TYP,
                          TSL2591_GAIN_MAXIMUM_CH1_MAX),
                      !.pc = "status"]
                 /\ cd' = cd
    /\ UNCHANGED <<pf, dlg, dvars, ts, fb, rl, rt, hw, settings, obs>>

\* after the do-while: the DONE or FAILED callback
GC_Status ==
    /\ gc.pc = "status"
    /\ \E cont \in BOOLEAN :
        /\ obs' = Report(obs, FinalStatus(gc.ret), cont)
        /\ gc' = IF cont THEN [gc EXCEPT !.pc = "poweroff"]
                 ELSE [gc EXCEPT !.ret = "osError", !.pc = "poweroff"]
    /\ UNCHANGED <<pf, dlg, dvars, ts, fb, gl, cd, rl, rt, hw, settings>>

\* sensor_stop() and the lights off
GC_PowerOff ==
    /\ gc.pc = "poweroff"
    /\ hw' = sensor_set_light_mode(sensor_stop(hw), "OFF", FALSE, 0)
    /\ gc' = [gc EXCEPT !.pc = IF Persists(gc.ret) THEN "save" ELSE "returned"]
    /\ obs' = [obs EXCEPT !.idled = TRUE]
    /\ UNCHANGED <<pf, dlg, dvars, ts, fb, gl, cd, rl, rt, settings>>

\* settings_set_cal_light and settings_set_cal_gain: each write succeeds or
\* fails, the result is only logged
GC_Save ==
    /\ gc.pc = "save"
    /\ \E light_ok \in BOOLEAN, gain_ok \in BOOLEAN :
        LET cal_light == [reflection |-> 128,
                          transmission |-> gc.measurement_led_brightness]
            cal_gain == [ch0_medium |-> gc.gain_med_ch0, ch1_medium |-> gc.gain_med_ch1,
                         ch0_high |-> gc.gain_high_ch0, ch1_high |-> gc.gain_high_ch1,
                         ch0_maximum |-> gc.gain_max_ch0, ch1_maximum |-> gc.gain_max_ch1]
        IN  /\ settings' = [settings EXCEPT
                              !.cal_light = IF light_ok THEN cal_light ELSE @,
                              !.cal_gain = IF gain_ok THEN cal_gain ELSE @]
            /\ obs' = [obs EXCEPT !.light_write = IF light_ok THEN "saved" ELSE "failed",
                                  !.gain_write = IF gain_ok THEN "saved" ELSE "failed"]
    /\ gc' = [gc EXCEPT !.pc = "returned"]
    /\ UNCHANGED <<pf, dlg, dvars, ts, fb, gl, cd, rl, rt, hw>>

----------------------------------------------------------------------------
(* sensor_read_target and sensor_read_target_raw *)

\* settings_get_cal_gain_fields: the stored multipliers of a gain tier
settings_get_cal_gain_fields(cal_gain, gain) ==
    CASE gain = "LOW"     -> [ch0 |-> 10, ch1 |-> 10]
      [] gain = "MEDIUM"  -> [ch0 |-> cal_gain.ch0_medium, ch1 |-> cal_gain.ch1_medium]
      [] gain = "HIGH"    -> [ch0 |-> cal_gain.ch0_high, ch1 |-> cal_gain.ch1_high]
      [] gain = "MAXIMUM" -> [ch0 |-> cal_gain.ch0_maximum, ch1 |-> cal_gain.ch1_maximum]

\* val / ((atime_ms * gain) / (TSL2591_LUX_GA * TSL2591_LUX_DF)), in
\* thousandths of a basic count; gain is in tenths
BasicCount(val, atime_ms, gain) ==
    IF gain = NaN \/ (atime_ms * gain) \div 1000 = 0 THEN NaN
    ELSE (val * TSL2591_LUX_GA * TSL2591_LUX_DF * 10) \div ((atime_ms * gain) \div 1000)

\* sensor_convert_to_basic_counts
sensor_convert_to_basic_counts(reading, cal_gain) ==
    LET g == settings_get_cal_gain_fields(cal_gain, reading.gain)
    IN  [ch0 |-> BasicCount(reading.ch0_val, reading.time, g.ch0),
         ch1 |-> BasicCount(reading.ch1_val, reading.time, g.ch1)]

FAdd(a, b) == IF a = NaN \/ b = NaN THEN NaN ELSE a + b
FHalf(a) == IF a = NaN THEN NaN ELSE a \div 2

\* sensor_get_read_brightness
sensor_get_read_brightness(light_source, cal_light) ==
    CASE light_source = "REFLECTION"   -> cal_light.reflection
      [] light_source = "TRANSMISSION" -> cal_light.transmission
      [] light_source = "OFF"          -> 0
      [] OTHER                         -> 128

RtIdle ==
    [pc |-> "idle", fn |-> "target", light_source |-> "OFF",
     gain |-> "LOW", time |-> 100, light_value |-> 0,
     i |-> 0, ret |-> "osOK", target_read_gain |-> "MAXIMUM",
     ch0_sum |-> 0, ch1_sum |-> 0, saturated |-> FALSE,
     seqs |-> <<>>, callbacks |-> 0, sat_seen |-> FALSE,
     probe |-> [ch0 |-> 0, ch1 |-> 0],
     result |-> [written |-> FALSE, ch0 |-> 0, ch1 |-> 0]]

\* a call of sensor_read_target(light_source, &ch0, &ch1, callback, ...)
RtCallTarget(light_source) ==
    [RtIdle EXCEPT !.pc = "begin", !.fn = "target", !.light_source = light_source]

\* a call of sensor_read_target_raw(light_source, gain, time, &ch0, &ch1)
RtCallRaw(light_source, gain, time) ==
    [RtIdle EXCEPT !.pc = "begin", !.fn = "raw", !.light_source = light_source,
                   !.gain = gain, !.time = time]

\* the readings the sensor task can deliver: any level, any cycle number
CycleReadings ==
    { [ch0_val |-> r.ch0_val, ch1_val |-> r.ch1_val, time |-> hw.time,
       gain |-> hw.gain, reading_count |-> n] :
      r \in Readings(hw.time), n \in 1..MaxSeq }

\* the cycle number the measurement loop expects at pass i
ExpectedCycle(fn, i) == IF fn = "target" THEN i + 4 ELSE i + 2

\* if (reading.reading_count != i + 4) / (reading.reading_count != i + 2)
CycleMismatchNever(fn, i, reading_count) == FALSE
CycleMismatch(fn, i, reading_count) == reading_count # ExpectedCycle(fn, i)

\* a saturated measurement reading: "Unexpected sensor saturation" is an
\* error of sensor_read_target, the raw variant only notes it
SaturationIsErrorAlways(fn) == TRUE
SaturationIsError(fn) == fn = "target"

\* sensor_stop() and sensor_set_light_mode(SENSOR_LIGHT_OFF, false, 0)
RtPowerDownSkipped(h) == h
RtPowerDown(h) == sensor_set_light_mode(sensor_stop(h), "OFF", FALSE, 0)

\* the probe threshold taken as inclusive
ProbeGainInclusive(reading) ==
    IF reading.ch0_val >= 32700 \/ reading.ch1_val >= 32700 THEN "HIGH" ELSE "MAXIMUM"

\* the readings the probe can deliver: those of any cycle, and levels at and
\* just above the probe threshold
ProbeReadings ==
    CycleReadings \cup
    { [ch0_val |-> v[1], ch1_val |-> v[2], time |-> hw.time, gain |-> hw.gain,
       reading_count |-> 1] :
      v \in {<<32700, 32700>>, <<32701, 0>>, <<0, 32701>>} }

\* the probe threshold of sensor_read_target
ProbeGain(reading) ==
    IF reading.ch0_val > 32700 \/ reading.ch1_val > 32700 THEN "HIGH" ELSE "MAXIMUM"

\* parameter validation and the read brightness
RT_Begin ==
    /\ rt.pc = "begin"
    /\ LET bad == IF rt.fn = "target"
                  THEN rt.light_source \notin {"REFLECTION", "TRANSMISSION"}
                  ELSE \/ rt.light_source \notin {"OFF", "REFLECTION", "TRANSMISSION"}
                       \/ ~(\E k \in 1..4 : Gains[k] = rt.gain)
                       \/ rt.time \notin Times
       IN  rt' = IF bad
                 THEN [rt EXCEPT !.ret = "osErrorParameter", !.pc = "returned"]
                 ELSE [rt EXCEPT
                         !.light_value = sensor_get_read_brightness(rt.light_source,
                                                                    settings.cal_light),
                         !.pc = "config"]
    /\ UNCHANGED <<pf, dlg, dvars, ts, gc, fb, gl, cd, rl, hw, settings, obs>>

\* sensor_set_config: maximum gain at 100 ms for the probe, or the caller's
RT_Config ==
    /\ rt.pc = "config"
    /\ \E ok \in BOOLEAN :
        IF ok
        THEN /\ hw' = IF rt.fn = "target" THEN sensor_set_config(hw, "MAXIMUM", 100)
                      ELSE sensor_set_config(hw, rt.gain, rt.time)
             /\ rt' = [rt EXCEPT !.pc = "light"]
        ELSE /\ hw' = hw
             /\ rt' = [rt EXCEPT !.ret = "osError", !.pc = "poweroff"]
    /\ obs' = HwUse(obs)
    /\ UNCHANGED <<pf, dlg, dvars, ts, gc, fb, gl, cd, rl, settings>>

\* the light source is requested for the next sensor cycle
RT_Light ==
    /\ rt.pc = "light"
    /\ \E ok \in BOOLEAN :
        IF ok
        THEN /\ hw' = sensor_set_light_mode(hw, rt.light_source, TRUE, rt.light_value)
             /\ rt' = [rt EXCEPT !.pc = "start"]
        ELSE /\ hw' = hw
             /\ rt' = [rt EXCEPT !.ret = "osError", !.pc = "poweroff"]
    /\ obs' = HwUse(obs)
    /\ UNCHANGED <<pf, dlg, dvars, ts, gc, fb, gl, cd, rl, settings>>

RT_Start ==
    /\ rt.pc = "start"
    /\ \E ok \in BOOLEAN :
        IF ok
        THEN /\ hw' = sensor_start(hw)
             /\ rt' = [rt EXCEPT !.pc = IF rt.fn = "target" THEN "probe" ELSE "measure"]
        ELSE /\ hw' = hw
             /\ rt' = [rt EXCEPT !.ret = "osError", !.pc = "poweroff"]
    /\ obs' = HwUse(obs)
    /\ UNCHANGED <<pf, dlg, dvars, ts, gc, fb, gl, cd, rl, settings>>

\* sensor_read_target: the initial reading, the callback and the gain choice
RT_Probe ==
    /\ rt.pc = "probe"
    /\ \/ /\ rt' = [rt EXCEPT !.ret = "osErrorTimeout", !.pc = "poweroff"]
          /\ hw' = hw
       \/ \E reading \in ProbeReadings :
          /\ hw' = SensorCycle(hw)
          /\ rt' = [rt EXCEPT !.callbacks = @ + 1,
                              !.probe = [ch0 |-> reading.ch0_val,
                                         ch1 |-> reading.ch1_val],
                              !.target_read_gain = ProbeGain(reading),
                              !.pc = "reconfig"]
    /\ obs' = HwUse(obs)
    /\ UNCHANGED <<pf, dlg, dvars, ts, gc, fb, gl, cd, rl, settings>>

\* sensor_set_config(target_read_gain, TSL2591_TIME_200MS)
RT_Reconfig ==
    /\ rt.pc = "reconfig"
    /\ \E ok \in BOOLEAN :
        IF ok
        THEN /\ hw' = sensor_set_config(hw, rt.target_read_gain, 200)
             /\ rt' = [rt EXCEPT !.pc = "measure"]
        ELSE /\ hw' = hw
             /\ rt' = [rt EXCEPT !.ret = "osError", !.pc = "poweroff"]
    /\ obs' = HwUse(obs)
    /\ UNCHANGED <<pf, dlg, dvars, ts, gc, fb, gl, cd, rl, settings>>

\* one pass of the measurement loop
RT_Measure ==
    /\ rt.pc = "measure"
    /\ rt.i < SENSOR_TARGET_READ_ITERATIONS
    /\ \/ /\ rt' = [rt EXCEPT !.ret = "osErrorTimeout", !.pc = "poweroff"]
          /\ hw' = hw
       \/ \E reading \in CycleReadings :
          LET r1 == [rt EXCEPT !.seqs = Append(@, reading.reading_count),
                               !.callbacks = IF rt.fn = "target" THEN @ + 1 ELSE @]
              basic == sensor_convert_to_basic_counts(reading, settings.cal_gain)
              last == rt.i + 1 >= SENSOR_TARGET_READ_ITERATIONS
          IN  /\ hw' = SensorCycle(hw)
              /\ rt' =
                   IF CycleMismatch(rt.fn, rt.i, reading.reading_count)
                   THEN [r1 EXCEPT !.ret = "osError", !.pc = "poweroff"]
                   ELSE IF sensor_is_reading_saturated(reading)
                   THEN IF SaturationIsError(rt.fn)
                        THEN [r1 EXCEPT !.ret = "osError", !.sat_seen = TRUE,
                                        !.pc = "poweroff"]
                        ELSE [r1 EXCEPT !.saturated = TRUE, !.sat_seen = TRUE,
                                        !.pc = "poweroff"]
                   ELSE IF rt.fn = "target"
                   THEN [r1 EXCEPT !.ch0_sum = FAdd(@, basic.ch0),
                                   !.ch1_sum = FAdd(@, basic.ch1),
                                   !.i = @ + 1,
                                   !.pc = IF last THEN "poweroff" ELSE "measure"]
                   ELSE [r1 EXCEPT !.ch0_sum = @ + reading.ch0_val,
                                   !.ch1_sum = @ + reading.ch1_val,
                                   !.i = @ + 1,
                                   !.pc = IF last THEN "poweroff" ELSE "measure"]
    /\ UNCHANGED <<pf, dlg, dvars, ts, gc, fb, gl, cd, rl, settings, obs>>

\* lroundf(sum / SENSOR_TARGET_READ_ITERATIONS) of the raw variant
RawAverage(sum) ==
    (2 * sum + SENSOR_TARGET_READ_ITERATIONS) \div (2 * SENSOR_TARGET_READ_ITERATIONS)

\* the sensor is stopped, the light switched off and, on success, the
\* results are stored
RT_PowerOff ==
    /\ rt.pc = "poweroff"
    /\ hw' = RtPowerDown(hw)
    /\ obs' = [obs EXCEPT !.idled = TRUE]
    /\ rt' = [rt EXCEPT
                !.pc = "returned",
                !.result =
                    IF rt.ret # "osOK" THEN @
                    ELSE IF rt.fn = "target"
                    THEN [written |-> TRUE, ch0 |-> FHalf(rt.ch0_sum),
                          ch1 |-> FHalf(rt.ch1_sum)]
                    ELSE IF rt.saturated
                    THEN [written |-> TRUE, ch0 |-> 65535, ch1 |-> 65535]
                    ELSE [written |-> TRUE, ch0 |-> RawAverage(rt.ch0_sum),
                          ch1 |-> RawAverage(rt.ch1_sum)]]
    /\ UNCHANGED <<pf, dlg, dvars, ts, gc, fb, gl, cd, rl, settings>>

----------------------------------------------------------------------------
(* densitometer.c: the density measurements and the point calibrations.    *)
(* Densities and measured values are fixed-point integers in hundredths    *)
(* (2.50 is 250), logarithms in thousandths.                               *)

\* light.c: the brightness of the two light sources
LightIdle ==
    [reflection |-> LIGHT_REFLECTION_IDLE, transmission |-> LIGHT_TRANSMISSION_IDLE]

light_set_reflection(l, value) == [l EXCEPT !.reflection = value]
light_set_transmission(l, value) == [l EXCEPT !.transmission = value]

\* float operator >= (false on NaN)
FGe(a, b) == a # NaN /\ b # NaN /\ a >= b

\* log10 of 1..9 in thousandths
Log10Digit(v) ==
    CASE v = 1 -> 0   [] v = 2 -> 301 [] v = 3 -> 477 [] v = 4 -> 602
      [] v = 5 -> 699 [] v = 6 -> 778 [] v = 7 -> 845 [] v = 8 -> 903
      [] v = 9 -> 954

RECURSIVE Log10Milli(_)
Log10Milli(v) == IF v >= 10 THEN 1000 + Log10Milli(v \div 10) ELSE Log10Digit(v)

\* log10f of a value in hundredths: NaN below 0, minus infinity at 0
log10f(x) ==
    IF x = NaN \/ x < 0 THEN NaN
    ELSE IF x = 0 THEN 0 - Inf
    ELSE Log10Milli(x) - 2000

\* the stored calibration points: never calibrated, zeroed, and calibrated
Uncalibrated ==
    [cal_reflection |-> [lo_d |-> NaN, lo_value |-> NaN, hi_d |-> NaN, hi_value |-> NaN],
     cal_transmission |-> [zero_value |-> NaN, hi_d |-> NaN, hi_value |-> NaN]]
Zeroed ==
    [cal_reflection |-> [lo_d |-> 0, lo_value |-> 0, hi_d |-> 0, hi_value |-> 0],
     cal_transmission |-> [zero_value |-> 0, hi_d |-> 0, hi_value |-> 0]]
Calibrated ==
    [cal_reflection |-> [lo_d |-> 10, lo_value |-> 1000, hi_d |-> 200, hi_value |-> 20],
     cal_transmission |-> [zero_value |-> 2000, hi_d |-> 300, hi_value |-> 2]]

\* the settings with the calibration points p
WithPoints(s, p) ==
    [s EXCEPT !.cal_reflection = p.cal_reflection,
              !.cal_transmission = p.cal_transmission]

\* no check of the reflection points
ReflectionCalInvalidNever(c) == FALSE

\* if (cal_lo_d < 0.0F || cal_hi_d <= cal_lo_d
\*     || cal_lo_value < 0.0F || cal_hi_value >= cal_lo_value)
ReflectionCalInvalid(c) ==
    \/ FLt(c.lo_d, 0) \/ FLe(c.hi_d, c.lo_d)
    \/ FLt(c.lo_value, 0) \/ FGe(c.hi_value, c.lo_value)

\* if (cal_zero_value <= 0.0F || cal_hi_d <= 0.0F || cal_hi_value <= 0.0F
\*     || cal_hi_value >= cal_zero_value)
TransmissionCalInvalid(c) ==
    \/ FLe(c.zero_value, 0) \/ FLe(c.hi_d, 0) \/ FLe(c.hi_value, 0)
    \/ FGe(c.hi_value, c.zero_value)

Measures == {"reflection_measure", "transmission_measure"}
Calibrations ==
    {"calibrate_reflection_lo", "calibrate_reflection_hi",
     "calibrate_transmission_zero", "calibrate_transmission_hi"}
ReflectionFns ==
    {"reflection_measure", "calibrate_reflection_lo", "calibrate_reflection_hi"}

\* if (cal_d < 0.00F || cal_d > 2.50F), 4.00F for transmission hi
DensityOutOfRange(fn, d) ==
    CASE fn \in {"calibrate_reflection_lo", "calibrate_reflection_hi"} ->
           FLt(d, 0) \/ FGt(d, 250)
      [] fn = "calibrate_transmission_hi" -> FLt(d, 0) \/ FGt(d, 400)
      [] OTHER -> FALSE

\* the check a function makes before it touches the lights
DmRejects(fn, d, s) ==
    CASE fn = "reflection_measure" -> ReflectionCalInvalid(s.cal_reflection)
      [] fn = "transmission_measure" -> TransmissionCalInvalid(s.cal_transmission)
      [] OTHER -> DensityOutOfRange(fn, d)

\* the difference without the clamp of ch1
MeasValueUnclamped(ch0_basic, ch1_basic) == FSub(ch0_basic, ch1_basic)

\* if (ch1_basic >= ch0_basic) { ch1_basic = 0; }  meas_value = ch0 - ch1
MeasValue(ch0_basic, ch1_basic) ==
    IF FGe(ch1_basic, ch0_basic) THEN ch0_basic ELSE FSub(ch0_basic, ch1_basic)

\* the slope of the line with its sign lost
ReflectionDensityRising(meas_value, c) ==
    IF meas_value = 0 THEN 0 - Inf
    ELSE c.lo_d + ((c.hi_d - c.lo_d) * (log10f(meas_value) - log10f(c.lo_value)))
                     \div (log10f(c.lo_value) - log10f(c.hi_value))

\* the lo density not added
ReflectionDensityNoOffset(meas_value, c) ==
    IF meas_value = 0 THEN Inf
    ELSE ((c.hi_d - c.lo_d) * (log10f(c.lo_value) - log10f(meas_value)))
             \div (log10f(c.lo_value) - log10f(c.hi_value))

\* meas_d of densitometer_reflection_measure, for points that passed the
\* check (the slope m is negative) and a measured value >= 0
ReflectionDensity(meas_value, c) ==
    LET meas_ll == log10f(meas_value)
        cal_hi_ll == log10f(c.hi_value)
        cal_lo_ll == log10f(c.lo_value)
    IN  IF \/ NaN \in {meas_ll, cal_hi_ll, cal_lo_ll, c.lo_d, c.hi_d}
           \/ cal_lo_ll <= cal_hi_ll
        THEN NaN
        ELSE IF meas_value = 0 THEN Inf
        ELSE c.lo_d + ((c.hi_d - c.lo_d) * (cal_lo_ll - meas_ll))
                         \div (cal_lo_ll - cal_hi_ll)

\* the density relative to the zero reading, without the adjustment factor
TransmissionDensityUnadjusted(meas_value, c) ==
    IF meas_value = 0 THEN Inf
    ELSE FSub(log10f(c.zero_value), log10f(meas_value)) \div 10

\* corr_d of densitometer_transmission_measure; log10f(a / b) is taken as
\* log10f(a) - log10f(b)
TransmissionDensity(meas_value, c) ==
    LET zero_ll == log10f(c.zero_value)
        cal_hi_meas_d == FSub(zero_ll, log10f(c.hi_value))
        meas_d == FSub(zero_ll, log10f(meas_value))
    IN  IF \/ NaN \in {cal_hi_meas_d, meas_d, c.hi_d}
           \/ cal_hi_meas_d <= 0
        THEN NaN
        ELSE IF meas_value = 0 THEN Inf
        ELSE (meas_d * c.hi_d) \div cal_hi_meas_d

\* the table a point calibration stores
StorePoint(s, fn, d, meas_value) ==
    CASE fn = "calibrate_reflection_lo" ->
           [s EXCEPT !.cal_reflection.lo_d = d, !.cal_reflection.lo_value = meas_value]
      [] fn = "calibrate_reflection_hi" ->
           [s EXCEPT !.cal_reflection.hi_d = d, !.cal_reflection.hi_value = meas_value]
      [] fn = "calibrate_transmission_zero" ->
           [s EXCEPT !.cal_transmission.zero_value = meas_value]
      [] fn = "calibrate_transmission_hi" ->
           [s EXCEPT !.cal_transmission.hi_d = d,
                     !.cal_transmission.hi_value = meas_value]

\* densitometer_reflection_d and densitometer_transmission_d
DensInit == [reflection_d |-> NaN, transmission_d |-> NaN]

DmIdle ==
    [pc |-> "idle", fn |-> "none", d |-> 0, ch0_basic |-> 0, ch1_basic |-> 0,
     result |-> "none", lit |-> FALSE, read |-> FALSE, stored |-> FALSE,
     calls |-> 0, prev |-> [fn |-> "none", result |-> "none", stored |-> FALSE],
     before |-> <<>>]

\* the densities a caller may supply, in hundredths
Densities == {NaN, -1, 10, 250, 251, 400, 401}

\* what sensor_read(iterations, &ch0_basic, &ch1_basic) may deliver
BasicReadings ==
    { [ch0_basic |-> 0, ch1_basic |-> 0], [ch0_basic |-> 50, ch1_basic |-> 50],
      [ch0_basic |-> 200, ch1_basic |-> 100], [ch0_basic |-> 1000, ch1_basic |-> 0] }

\* which functions store a calibration pair when they succeed
PersistedAsLo(s, fn, d, meas_value) ==
    StorePoint(s, "calibrate_reflection_lo", d, meas_value)
Persisted(s, fn, d, meas_value) ==
    IF fn \in Calibrations THEN StorePoint(s, fn, d, meas_value) ELSE s

\* the light is left as it is
LightLeftOn(l, fn) == l

\* light_set_reflection(LIGHT_REFLECTION_IDLE) or
\* light_set_transmission(LIGHT_TRANSMISSION_IDLE)
LightToIdle(l, fn) ==
    IF fn \in ReflectionFns THEN light_set_reflection(l, LIGHT_REFLECTION_IDLE)
    ELSE light_set_transmission(l, LIGHT_TRANSMISSION_IDLE)

\* the light source of a function at the brightness given
LightOf(l, fn) == IF fn \in ReflectionFns THEN l.reflection ELSE l.transmission

\* a function of densitometer.c is called; the task that calls it is not
\* inside sensor_read_target
DM_Call ==
    /\ dm.pc \in {"idle", "returned"}
    /\ rt.pc = "idle"
    /\ dm.calls < MaxCalls
    /\ \E fn \in Measures \cup Calibrations :
       \E d \in (IF fn \in Measures \cup {"calibrate_transmission_zero"}
                 THEN {0} ELSE Densities) :
          dm' = [DmIdle EXCEPT !.pc = "begin", !.fn = fn, !.d = d,
                               !.calls = dm.calls + 1,
                               !.prev = [fn |-> dm.fn, result |-> dm.result,
                                         stored |-> dm.stored],
                               !.before = [settings |-> settings, dens |-> dens,
                                           light |-> leds]]
    /\ UNCHANGED <<pf, dlg, gc, fb, gl, cd, rl, rt, hw, settings, obs, leds, dens, ts>>

\* the calibration values or the argument are checked
DM_Begin ==
    /\ dm.pc = "begin"
    /\ dm' = IF DmRejects(dm.fn, dm.d, settings)
             THEN [dm EXCEPT !.result = "DENSITOMETER_CAL_ERROR", !.pc = "returned"]
             ELSE [dm EXCEPT !.pc = "light"]
    /\ UNCHANGED <<pf, dlg, gc, fb, gl, cd, rl, rt, hw, settings, obs, leds, dens, ts>>

\* the light intensity is set for the reading
DM_Light ==
    /\ dm.pc = "light"
    /\ leds' = IF dm.fn \in ReflectionFns
                THEN light_set_transmission(light_set_reflection(leds, 128), 0)
                ELSE light_set_transmission(light_set_reflection(leds, 0), 128)
    /\ dm' = [dm EXCEPT !.lit = TRUE, !.pc = "read"]
    /\ UNCHANGED <<pf, dlg, gc, fb, gl, cd, rl, rt, hw, settings, obs, dens, ts>>

\* sensor_read returns: on an error the light goes back to idle
DM_Read ==
    /\ dm.pc = "read"
    /\ \/ /\ dm' = [dm EXCEPT !.read = TRUE, !.result = "DENSITOMETER_SENSOR_ERROR",
                              !.pc = "returned"]
          /\ leds' = LightToIdle(leds, dm.fn)
       \/ \E r \in BasicReadings :
          /\ dm' = [dm EXCEPT !.read = TRUE, !.ch0_basic = r.ch0_basic,
                              !.ch1_basic = r.ch1_basic, !.pc = "finish"]
          /\ leds' = leds
    /\ UNCHANGED <<pf, dlg, gc, fb, gl, cd, rl, rt, hw, settings, obs, dens, ts>>

\* a measurement that writes its density to both stored values
LastDensityBoth(last, fn, meas_value, s) ==
    CASE fn = "reflection_measure" ->
           [reflection_d |-> ReflectionDensity(meas_value, s.cal_reflection),
            transmission_d |-> ReflectionDensity(meas_value, s.cal_reflection)]
      [] fn = "transmission_measure" ->
           [reflection_d |-> TransmissionDensity(meas_value, s.cal_transmission),
            transmission_d |-> TransmissionDensity(meas_value, s.cal_transmission)]
      [] OTHER -> last

\* densitometer_reflection_d = meas_d;  densitometer_transmission_d = corr_d;
LastDensity(last, fn, meas_value, s) ==
    CASE fn = "reflection_measure" ->
           [last EXCEPT !.reflection_d =
               ReflectionDensity(meas_value, s.cal_reflection)]
      [] fn = "transmission_measure" ->
           [last EXCEPT !.transmission_d =
               TransmissionDensity(meas_value, s.cal_transmission)]
      [] OTHER -> last

\* the measured value is judged and the result stored
DM_Finish ==
    /\ dm.pc = "finish"
    /\ LET meas_value == MeasValue(dm.ch0_basic, dm.ch1_basic)
       IN  IF dm.fn \in Calibrations /\ FLt(meas_value, 1)
           THEN /\ dm' = [dm EXCEPT !.result = "DENSITOMETER_CAL_ERROR",
                                    !.pc = "returned"]
                /\ UNCHANGED <<settings, dens, leds>>
           ELSE /\ settings' = Persisted(settings, dm.fn, dm.d, meas_value)
                /\ dens' = LastDensity(dens, dm.fn, meas_value, settings)
                /\ leds' = LightToIdle(leds, dm.fn)
                /\ dm' = [dm EXCEPT !.result = "DENSITOMETER_OK",
                                    !.stored = dm.fn \in Calibrations,
                                    !.pc = "returned"]
    /\ UNCHANGED <<pf, dlg, gc, fb, gl, cd, rl, rt, hw, obs, ts>>

----------------------------------------------------------------------------

(* task_main.c: task startup.  task_list[1] is the usbd task, task_list[2]  *)
(* the cdc task; each is handed the startup semaphore and releases it once  *)
(* its subsystem is initialised.  task_cdc_run is taken to follow the steps *)
(* of task_usbd_run.                                                        *)

StartedTasks == 1..2

TsIdle ==
    [main |-> "none", i |-> 1, sem |-> 0, loops |-> 0,
     task |-> [k \in StartedTasks |-> "none"],
     inited |-> [k \in StartedTasks |-> FALSE],
     polls |-> [k \in StartedTasks |-> 0]]

\* for (i = 1; i < task_count; i++): the loop is left after the last task
AfterTask(t) ==
    IF t.i + 1 \in StartedTasks
    THEN [t EXCEPT !.i = @ + 1, !.main = "create"]
    ELSE [t EXCEPT !.i = @ + 1, !.main = "loop"]

\* osSemaphoreAcquire(task_start_semaphore, portMAX_DELAY) returns once the
\* semaphore has a token
SemaphoreAvailableAlways(sem) == TRUE
SemaphoreAvailable(sem) == sem > 0

\* task_main_init: the semaphore (at most one token, none at the start) and
\* the main task are created
TS_Init ==
    /\ ts.main = "none"
    /\ \E sem_ok \in BOOLEAN, thread_ok \in BOOLEAN :
         ts' = IF sem_ok /\ thread_ok THEN [ts EXCEPT !.main = "start"]
               ELSE [ts EXCEPT !.main = "no_memory"]
    /\ UNCHANGED <<pf, dlg, gc, fb, gl, cd, rl, rt, hw, settings, obs, dvars>>

\* task_main_run: display, sensor, light, settings and state controller
\* are initialised
TS_MainSetup ==
    /\ ts.main = "start"
    /\ ts' = [ts EXCEPT !.main = "create"]
    /\ UNCHANGED <<pf, dlg, gc, fb, gl, cd, rl, rt, hw, settings, obs, dvars>>

\* osThreadNew for task_list[i]: on an error the loop continues
TS_Create ==
    /\ ts.main = "create"
    /\ \E ok \in BOOLEAN :
         ts' = IF ok
               THEN [ts EXCEPT !.task[ts.i] = "created", !.main = "acquire"]
               ELSE AfterTask([ts EXCEPT !.task[ts.i] = "create_error"])
    /\ UNCHANGED <<pf, dlg, gc, fb, gl, cd, rl, rt, hw, settings, obs, dvars>>

\* the main task gets the token of the semaphore
TS_Acquire ==
    /\ ts.main = "acquire"
    /\ SemaphoreAvailable(ts.sem)
    /\ ts' = AfterTask([ts EXCEPT !.sem = @ - 1])
    /\ UNCHANGED <<pf, dlg, gc, fb, gl, cd, rl, rt, hw, settings, obs, dvars>>

\* a created task initialises its subsystem (tusb_init): on an error it
\* returns without releasing the semaphore
TS_TaskInit ==
    /\ \E k \in StartedTasks :
        /\ ts.task[k] = "created"
        /\ \E ok \in BOOLEAN :
             ts' = IF ok
                   THEN [ts EXCEPT !.task[k] = "initialised", !.inited[k] = TRUE]
                   ELSE [ts EXCEPT !.task[k] = "init_error"]
    /\ UNCHANGED <<pf, dlg, gc, fb, gl, cd, rl, rt, hw, settings, obs, dvars>>

\* osSemaphoreRelease(task_start_semaphore): an error when the semaphore
\* already holds its one token
TS_Release ==
    /\ \E k \in StartedTasks :
        /\ ts.task[k] = "initialised"
        /\ ts' = IF ts.sem < 1
                 THEN [ts EXCEPT !.sem = @ + 1, !.task[k] = "running"]
                 ELSE [ts EXCEPT !.task[k] = "release_error"]
    /\ UNCHANGED <<pf, dlg, gc, fb, gl, cd, rl, rt, hw, settings, obs, dvars>>

\* while (1) { tud_task(); }
TS_TaskLoop ==
    /\ \E k \in StartedTasks :
        /\ ts.task[k] = "running"
        /\ ts.polls[k] < MaxPolls
        /\ ts' = [ts EXCEPT !.polls[k] = @ + 1]
    /\ UNCHANGED <<pf, dlg, gc, fb, gl, cd, rl, rt, hw, settings, obs, dvars>>

\* state_controller_loop()
TS_ControllerLoop ==
    /\ ts.main = "loop"
    /\ ts.loops < MaxPolls
    /\ ts' = [ts EXCEPT !.loops = @ + 1]
    /\ UNCHANGED <<pf, dlg, gc, fb, gl, cd, rl, rt, hw, settings, obs, dvars>>

----------------------------------------------------------------------------

(* Functions without side effects: sensor_is_reading_saturated,            *)
(* sensor_apply_slope_calibration and the density of                       *)
(* densitometer_reflection_measure, each applied to arguments drawn from   *)
(* a set.                                                                   *)

PfIdle == [pc |-> "idle", fn |-> "none", arg |-> <<>>, out |-> <<>>]
PfCall(fn, arg) == [PfIdle EXCEPT !.pc = "call", !.fn = fn, !.arg = arg]


\* raw counts at, below and above the two saturation limits
SaturationLevels ==
    {0, TSL2591_ANALOG_SATURATION - 1, TSL2591_ANALOG_SATURATION,
     TSL2591_ANALOG_SATURATION + 1, TSL2591_DIGITAL_SATURATION - 1,
     TSL2591_DIGITAL_SATURATION}

isinff(x) == x = Inf \/ x = 0 - Inf

\* Basic readings of the slope correction are in ten-thousandths and are
\* powers of ten, so that their logarithms are whole numbers.
RECURSIVE Pow10(_)
Pow10(k) == IF k <= 0 THEN 1 ELSE 10 * Pow10(k - 1)

RECURSIVE Log10Pow(_)
Log10Pow(v) == IF v < 10 THEN 0 ELSE 1 + Log10Pow(v \div 10)

\* log10f(basic_reading) and powf(10.0F, l_expected)
SlopeLog(basic_reading) == Log10Pow(basic_reading) - 4
SlopePow(l_expected) ==
    IF l_expected = NaN THEN NaN
    ELSE IF l_expected < -4 THEN 0
    ELSE Pow10(l_expected + 4)

\* the stored slope coefficients as settings_get_cal_slope delivers them:
\* missing, marked invalid, and four valid tables
SlopeTables ==
    { [valid |-> FALSE, b0 |-> NaN, b1 |-> NaN, b2 |-> NaN],
      [valid |-> FALSE, b0 |-> 0, b1 |-> 2, b2 |-> 0],
      [valid |-> TRUE, b0 |-> 0, b1 |-> 1, b2 |-> 0],
      [valid |-> TRUE, b0 |-> 1, b1 |-> 1, b2 |-> 0],
      [valid |-> TRUE, b0 |-> 0, b1 |-> 1, b2 |-> 1],
      [valid |-> TRUE, b0 |-> 0, b1 |-> 2, b2 |-> 0] }

SlopeReadings == {NaN, Inf, 0 - Inf, -100, 0, 100, 1000, 10000, 100000}

\* the reading is returned as it is, whatever the coefficients
SlopeReturnsInputIgnoringValid(basic_reading, valid) ==
    isnanf(basic_reading) \/ isinff(basic_reading) \/ FLe(basic_reading, 0)

\* if (isnanf(basic_reading) || isinff(basic_reading) || basic_reading <= 0.0F)
\* and if (!valid)
SlopeReturnsInput(basic_reading, valid) ==
    \/ isnanf(basic_reading) \/ isinff(basic_reading) \/ FLe(basic_reading, 0)
    \/ ~valid

sensor_apply_slope_calibration(basic_reading, cal_slope) ==
    IF SlopeReturnsInput(basic_reading, cal_slope.valid) THEN basic_reading
    ELSE LET l_reading == SlopeLog(basic_reading)
             l_expected ==
                 IF NaN \in {cal_slope.b0, cal_slope.b1, cal_slope.b2} THEN NaN
                 ELSE cal_slope.b0 + (cal_slope.b1 * l_reading)
                        + (cal_slope.b2 * l_reading * l_reading)
         IN  SlopePow(l_expected)

\* reflection calibration points as the point calibrations store them, and
\* measured values from none to more than the lo reading
ValidReflectionPoints ==
    { [lo_d |-> 10, lo_value |-> 1000, hi_d |-> 200, hi_value |-> 20],
      [lo_d |-> 0, lo_value |-> 500, hi_d |-> 250, hi_value |-> 1],
      [lo_d |-> 5, lo_value |-> 200, hi_d |-> 150, hi_value |-> 10] }

MeasuredValues == {0, 1, 2, 5, 10, 20, 50, 100, 200, 500, 1000, 2000}

PF_Saturated ==
    /\ pf.pc = "call" /\ pf.fn = "sensor_is_reading_saturated"
    /\ pf' = [pf EXCEPT !.out = sensor_is_reading_saturated(pf.arg), !.pc = "done"]
    /\ UNCHANGED <<dlg, gc, fb, gl, cd, rl, rt, hw, settings, obs, dvars, ts>>

PF_Slope ==
    /\ pf.pc = "call" /\ pf.fn = "sensor_apply_slope_calibration"
    /\ pf' = [pf EXCEPT !.out = sensor_apply_slope_calibration(pf.arg.basic_reading,
                                                               pf.arg.cal_slope),
                        !.pc = "done"]
    /\ UNCHANGED <<dlg, gc, fb, gl, cd, rl, rt, hw, settings, obs, dvars, ts>>

\* the density of two measured values over the same calibration points
PF_Density ==
    /\ pf.pc = "call" /\ pf.fn = "reflection_density"
    /\ pf' = [pf EXCEPT !.out = [d1 |-> ReflectionDensity(pf.arg.m1, pf.arg.c),
                                 d2 |-> ReflectionDensity(pf.arg.m2, pf.arg.c)],
                        !.pc = "done"]
    /\ UNCHANGED <<dlg, gc, fb, gl, cd, rl, rt, hw, settings, obs, dvars, ts>>

\* transmission points that pass the check of densitometer_transmission_measure
ValidTransmissionPoints ==
    { [zero_value |-> 100000, hi_d |-> 300, hi_value |-> 100],
      [zero_value |-> 50000, hi_d |-> 210, hi_value |-> 500],
      [zero_value |-> 2000, hi_d |-> 95, hi_value |-> 200] }

TransmissionValues == {0, 1, 10, 100, 200, 500, 2000, 5000, 50000, 100000, 200000}

PF_Transmission ==
    /\ pf.pc = "call" /\ pf.fn = "transmission_density"
    /\ pf' = [pf EXCEPT !.out = TransmissionDensity(pf.arg.m, pf.arg.c), !.pc = "done"]
    /\ UNCHANGED <<dlg, gc, fb, gl, cd, rl, rt, hw, settings, obs, dvars, ts>>

\* basic counts of a channel, in hundredths
ChannelValues == {NaN, -100, 0, 1, 50, 100, 200, 1000}

PF_MeasValue ==
    /\ pf.pc = "call" /\ pf.fn = "meas_value"
    /\ pf' = [pf EXCEPT !.out = MeasValue(pf.arg.ch0_basic, pf.arg.ch1_basic),
                        !.pc = "done"]
    /\ UNCHANGED <<dlg, gc, fb, gl, cd, rl, rt, hw, settings, obs, dvars, ts>>

-----------------------------------------------------------------------------
(* The slope calibration dialog of the desktop application
   (slopecalibrationdialog.cpp).  Densities and logarithms are in
   thousandths, raw readings are whole numbers.  A coefficient of the fit is a
   fraction num/den, in thousandths; 0/0 is NaN. *)

\* rows of the table that are followed (the dialog has 22)
TableRows == 7
\* clicks that are followed after the dialog has been opened
MaxClicks == 3

\* an item of the table: a text that parses, no item, an item without text
Cell(v) == [item |-> TRUE, ok |-> TRUE, value |-> v]
NoItem == [item |-> FALSE, ok |-> FALSE, value |-> 0]
Cleared == [item |-> TRUE, ok |-> FALSE, value |-> 0]
EmptyRow == <<NoItem, NoItem>>

CoefNaN == [num |-> 0, den |-> 0]
Coef(n, d) == [num |-> n, den |-> d]
NaNTriple == <<CoefNaN, CoefNaN, CoefNaN>>
NoRows == [xList |-> <<>>, yList |-> <<>>, base_measurement |-> NaN]

\* the dialog as its constructor leaves it
DlgIdle ==
    [ table |-> [row \in 0..(TableRows - 1) |-> EmptyRow],
      calValues |-> NaNTriple,
      shown |-> <<>>,
      ok_enabled |-> FALSE,
      clicks |-> 0,
      op |-> "none",
      xList |-> <<>>,
      yList |-> <<>>,
      result |-> FALSE,
      before |-> [calValues |-> NaNTriple, ok_enabled |-> FALSE] ]

itemValueAsFloat(table, row, col) ==
    LET item == table[row][col + 1]
    IN  IF item.item /\ item.ok THEN item.value ELSE NaN

\* std::log10 of a reading, and log10(base_measurement / pow(10, density))
DlgLog10(measurement) ==
    IF measurement = NaN \/ measurement < 0 THEN NaN
    ELSE IF measurement = 0 THEN 0 - Inf
    ELSE 1000 * Log10Pow(measurement)

DlgLogRatio(base_measurement, density) ==
    IF DlgLog10(base_measurement) = NaN \/ density = NaN THEN NaN
    ELSE DlgLog10(base_measurement) - density

RowIncompleteDensityOnly(density, measurement) == isnanf(density)

RowIncomplete(density, measurement) == isnanf(density) \/ isnanf(measurement)

FirstRowDensityUnchecked(density) == FALSE

FirstRowDensityBad(density) == FLt(density, 0) \/ FGt(density, 1)

TooFewRowsBelowFour(size) == size < 4

TooFewRows(size) == size < 5

\* the loop over the rows of the table, from row on
RECURSIVE CollectRows(_, _, _)
CollectRows(table, row, acc) ==
    IF row >= TableRows THEN acc
    ELSE LET density == itemValueAsFloat(table, row, 0)
             measurement == itemValueAsFloat(table, row, 1)
             x == DlgLog10(measurement)
         IN  IF RowIncomplete(density, measurement) THEN acc
             ELSE IF row = 0
             THEN IF FirstRowDensityBad(density) THEN acc
                  ELSE CollectRows(table, row + 1,
                           [xList |-> Append(acc.xList, x),
                            yList |-> Append(acc.yList, x),
                            base_measurement |-> measurement])
             ELSE CollectRows(table, row + 1,
                      [acc EXCEPT !.xList = Append(@, x),
                                  !.yList = Append(@,
                                      DlgLogRatio(acc.base_measurement, density))])

RECURSIVE IntPow(_, _)
IntPow(b, e) == IF e = 0 THEN 1 ELSE b * IntPow(b, e - 1)

\* X[i] and Y[i] of polyfit, over the first j points; x in whole units
RECURSIVE SumX(_, _, _)
SumX(xList, i, j) ==
    IF j = 0 THEN 0
    ELSE SumX(xList, i, j - 1) + IntPow(xList[j] \div 1000, i)

RECURSIVE SumXY(_, _, _, _)
SumXY(xList, yList, i, j) ==
    IF j = 0 THEN 0
    ELSE SumXY(xList, yList, i, j - 1) + IntPow(xList[j] \div 1000, i) * yList[j]

\* double arithmetic of the elimination, exact: a value is a fraction
\* num/den in lowest terms with den > 0; 1/0 and -1/0 are the infinities and
\* 0/0 is NaN
RECURSIVE Gcd(_, _)
Gcd(a, b) == IF b = 0 THEN a ELSE Gcd(b, a % b)

Magnitude(v) == IF v < 0 THEN 0 - v ELSE v
Sign(v) == IF v < 0 THEN -1 ELSE IF v > 0 THEN 1 ELSE 0

Quot(n, d) ==
    IF d = 0 THEN Coef(Sign(n), 0)
    ELSE LET g == Gcd(Magnitude(n), Magnitude(d))
         IN  Coef(Sign(d) * (n \div g), Magnitude(d) \div g)

QNaN(a) == a.den = 0 /\ a.num = 0

QMul(a, b) ==
    IF QNaN(a) \/ QNaN(b) THEN CoefNaN
    ELSE IF a.den = 0 \/ b.den = 0 THEN Quot(a.num * b.num, 0)
    ELSE LET p == Quot(a.num, b.den)
             q == Quot(b.num, a.den)
         IN  Quot(p.num * q.num, p.den * q.den)

QDiv(a, b) == QMul(a, Quot(b.den, b.num))

QSub(a, b) ==
    IF QNaN(a) \/ QNaN(b) THEN CoefNaN
    ELSE IF a.den = 0 \/ b.den = 0
    THEN Quot((IF a.den = 0 THEN a.num ELSE 0) - (IF b.den = 0 THEN b.num ELSE 0), 0)
    ELSE LET g == Gcd(a.den, b.den)
         IN  Quot(a.num * (b.den \div g) - b.num * (a.den \div g),
                  a.den * (b.den \div g))

\* std::abs(a) < std::abs(b)
QAbsLt(a, b) ==
    /\ ~QNaN(a) /\ ~QNaN(b)
    /\ a.den # 0
    /\ \/ b.den = 0
       \/ Magnitude(a.num) * b.den < Magnitude(b.num) * a.den

\* the pivoting pass for column i, from row k on: a row below with a larger
\* entry in column i is swapped with row i
RECURSIVE PivotPass(_, _, _, _)
PivotPass(a, m, i, k) ==
    IF k >= m THEN a
    ELSE PivotPass(IF QAbsLt(a[i][i], a[k][i])
                   THEN [a EXCEPT ![i] = a[k], ![k] = a[i]]
                   ELSE a,
                   m, i, k + 1)

\* the elimination for column i: term * row i is taken from every row below
EliminateBelow(a, m, n, i) ==
    [k \in 0..(m - 1) |->
        IF k <= i THEN a[k]
        ELSE [j \in 0..(n - 1) |->
                 QSub(a[k][j], QMul(QDiv(a[k][i], a[i][i]), a[i][j]))]]

\* the passes for the columns i, i + 1, ...; the matrices after each pivoting
\* pass and after each elimination are kept
RECURSIVE ForwardPasses(_, _, _, _, _)
ForwardPasses(a, m, n, i, seen) ==
    IF i >= m - 1 THEN [a |-> a, pivoted |-> seen.pivoted, eliminated |-> seen.eliminated]
    ELSE LET p == PivotPass(a, m, i, i + 1)
             e == EliminateBelow(p, m, n, i)
         IN  ForwardPasses(e, m, n, i + 1,
                 [pivoted |-> Append(seen.pivoted, p),
                  eliminated |-> Append(seen.eliminated, e)])

\* x[i] = a[i][n-1] less a[i][j] * x[j] for j = i+1 .. n-2, from column j on
RECURSIVE BackRow(_, _, _, _, _, _)
BackRow(a, n, x, i, j, acc) ==
    IF j >= n - 1 THEN acc
    ELSE BackRow(a, n, x, i, j + 1, QSub(acc, QMul(a[i][j], x[j])))

RECURSIVE BackSubstitution(_, _, _, _)
BackSubstitution(a, n, x, i) ==
    IF i < 0 THEN x
    ELSE BackSubstitution(a, n,
             [x EXCEPT ![i] = QDiv(BackRow(a, n, x, i, i + 1, a[i][n - 1]), a[i][i])],
             i - 1)

\* gaussEliminationLS(m, n, a, x): the solution x and the matrices passed
\* through.  The pivots are divided by without a look at them.
gaussEliminationLS(m, n, a) ==
    LET f == ForwardPasses(a, m, n, 0, [pivoted |-> <<>>, eliminated |-> <<>>])
    IN  [x |-> BackSubstitution(f.a, n, [i \in 0..(m - 1) |-> CoefNaN], m - 1),
         pivoted |-> f.pivoted,
         eliminated |-> f.eliminated]

NotFinite(s) == \E i \in 1..Len(s) : isnanf(s[i]) \/ isinff(s[i])

polyfit(xList, yList) ==
    IF xList = <<>> \/ Len(xList) # Len(yList) THEN NaNTriple
    ELSE IF NotFinite(xList) \/ NotFinite(yList) THEN NaNTriple
    ELSE LET N == Len(xList)
             B == [i \in 0..2 |-> [j \in 0..3 |->
                      IF j < 3 THEN Coef(SumX(xList, i + j, N), 1)
                      ELSE Coef(SumXY(xList, yList, i, N), 1)]]
             A == gaussEliminationLS(3, 4, B).x
         IN  <<A[0], A[1], A[2]>>

\* a click on "Calculate"
onCalculateResults ==
    /\ dlg.clicks < MaxClicks
    /\ LET rows == CollectRows(dlg.table, 0, NoRows)
           beta == polyfit(rows.xList, rows.yList)
           seen == [dlg EXCEPT !.clicks = @ + 1,
                               !.op = "calculate",
                               !.xList = rows.xList,
                               !.yList = rows.yList,
                               !.result = FALSE,
                               !.before = [calValues |-> dlg.calValues,
                                           ok_enabled |-> dlg.ok_enabled]]
       IN  dlg' = IF TooFewRows(Len(rows.xList)) THEN seen
                  ELSE [seen EXCEPT !.shown = beta,
                                    !.calValues = beta,
                                    !.ok_enabled = TRUE,
                                    !.result = TRUE]
    /\ UNCHANGED <<pf, gc, fb, gl, cd, rl, rt, hw, settings, obs, dvars, ts>>

\* "Delete" with one item of the table selected
onActionDelete ==
    /\ dlg.clicks < MaxClicks
    /\ \E row \in 0..(TableRows - 1), col \in 0..1 :
          /\ dlg.table[row][col + 1].item
          /\ dlg' = [dlg EXCEPT !.clicks = @ + 1,
                                !.op = "delete",
                                !.table[row][col + 1] = Cleared]
    /\ UNCHANGED <<pf, gc, fb, gl, cd, rl, rt, hw, settings, obs, dvars, ts>>

\* a click on "Clear"
onClearReadings ==
    /\ dlg.clicks < MaxClicks
    /\ dlg' = [dlg EXCEPT !.clicks = @ + 1,
                          !.op = "clear",
                          !.table = [row \in 0..(TableRows - 1) |->
                                        <<dlg.table[row][1], NoItem>>]]
    /\ UNCHANGED <<pf, gc, fb, gl, cd, rl, rt, hw, settings, obs, dvars, ts>>

\* Tables the user has filled in: lead complete rows, then a row without a
\* density or without a reading, then complete or empty rows.  The densities
\* rise by 0.3 a row; the readings are powers of ten, or all 1 (flat).
FirstRowDensities == {0, 1, 2, -1}

DlgReading(row, flat) == IF flat THEN 1 ELSE Pow10(2 - (row % 3))

DlgDensity(row, d0) == IF row = 0 THEN d0 ELSE 300 * row

FullRow(row, d0, flat) == <<Cell(DlgDensity(row, d0)), Cell(DlgReading(row, flat))>>

DlgTable(lead, hole, tail, d0, flat) ==
    [row \in 0..(TableRows - 1) |->
        IF row < lead THEN FullRow(row, d0, flat)
        ELSE IF row = lead
        THEN IF hole = "density" THEN <<NoItem, Cell(DlgReading(row, flat))>>
             ELSE <<Cell(DlgDensity(row, d0)), NoItem>>
        ELSE IF tail THEN FullRow(row, d0, flat) ELSE EmptyRow]

DlgTables ==
    { DlgTable(lead, hole, tail, d0, flat) :
        lead \in 0..TableRows, hole \in {"density", "reading"},
        tail \in BOOLEAN, d0 \in FirstRowDensities, flat \in BOOLEAN }

\* rows of the augmented matrices handed to gaussEliminationLS
MatrixRows ==
    { <<0, 1, 2, 3>>, <<1, 1, 1, 6>>, <<2, 0, 1, 5>>, <<-3, 1, 0, 1>>,
      <<0, 0, 1, 2>>, <<1, 2, 4, 0>> }

AugmentedMatrix(r0, r1, r2) ==
    LET rows == <<r0, r1, r2>>
    IN  [i \in 0..2 |-> [j \in 0..3 |-> Coef(rows[i + 1][j + 1], 1)]]

PF_Gauss ==
    /\ pf.pc = "call" /\ pf.fn = "gaussEliminationLS"
    /\ pf' = [pf EXCEPT !.out = gaussEliminationLS(3, 4, pf.arg), !.pc = "done"]
    /\ UNCHANGED <<dlg, gc, fb, gl, cd, rl, rt, hw, settings, obs, dvars, ts>>

----------------------------------------------------------------------------
(* A run of sensor_gain_calibration.  On entry the sensor is stopped and the *)
(* lights are off or, after a density measurement, at idle brightness.       *)

InitGain ==
    /\ gc = [GcIdle EXCEPT !.pc = "init"]
    /\ fb = FbIdle
    /\ gl = GlIdle
    /\ cd = CdIdle
    /\ rl = RlIdle
    /\ rt = RtIdle
    /\ hw \in {HwIdle,
               [HwIdle EXCEPT !.light = "REFLECTION", !.value = LIGHT_REFLECTION_IDLE]}
    /\ settings = PriorSettings
    /\ obs = ObsInit
    /\ dm = DmIdle
    /\ leds = LightIdle
    /\ dens = DensInit
    /\ ts = TsIdle
    /\ pf = PfIdle
    /\ dlg = DlgIdle

NextGain ==
    \/ GC_Init \/ GC_Config \/ GC_Start \/ GC_Find \/ GC_Cooldown \/ GC_Loop
    \/ GC_Status \/ GC_PowerOff \/ GC_Save
    \/ FB_Begin \/ FB_Config \/ FB_Discard \/ FB_Callback \/ FB_Loop
    \/ FB_Sample \/ FB_Exit
    \/ GL_Begin \/ GL_Config \/ GL_Discard1 \/ GL_Discard2 \/ GL_Read
    \/ GL_Cooldown \/ GL_LowCallback \/ GL_Exit
    \/ CD_Step
    \/ RL_Begin \/ RL_Read \/ RL_Finish

SpecGain == InitGain /\ [][NextGain]_vars

----------------------------------------------------------------------------
(* A call of sensor_raw_read_loop on its own, with the sensor running. *)

InitLoop ==
    /\ gc = GcIdle
    /\ fb = FbIdle
    /\ gl = GlIdle
    /\ cd = CdIdle
    /\ \E count \in 0..MaxLoopCount, want_ch1 \in BOOLEAN :
          rl = RlCall(count, want_ch1)
    /\ rt = RtIdle
    /\ \E gain \in {"LOW", "MAXIMUM"}, time \in {100, 200} :
          hw = sensor_start(sensor_set_config(HwIdle, gain, time))
    /\ settings = PriorSettings
    /\ obs = ObsInit
    /\ dm = DmIdle
    /\ leds = LightIdle
    /\ dens = DensInit
    /\ ts = TsIdle
    /\ pf = PfIdle
    /\ dlg = DlgIdle

NextLoop == RL_Begin \/ RL_Read \/ RL_Finish

SpecLoop == InitLoop /\ [][NextLoop]_vars

----------------------------------------------------------------------------
(* A call of sensor_read_target or of sensor_read_target_raw. *)

LightSources == {"OFF", "REFLECTION", "TRANSMISSION", "INVALID"}

InitTarget ==
    /\ gc = GcIdle
    /\ fb = FbIdle
    /\ gl = GlIdle
    /\ cd = CdIdle
    /\ rl = RlIdle
    /\ \/ \E light_source \in LightSources : rt = RtCallTarget(light_source)
       \/ \E light_source \in LightSources,
             gain \in {"LOW", "HIGH", "INVALID"}, time \in {100, 200, 700} :
             rt = RtCallRaw(light_source, gain, time)
    /\ hw \in {HwIdle,
               [HwIdle EXCEPT !.light = "REFLECTION", !.value = LIGHT_REFLECTION_IDLE]}
    /\ settings = PriorSettings
    /\ obs = ObsInit
    /\ dm = DmIdle
    /\ leds = LightIdle
    /\ dens = DensInit
    /\ ts = TsIdle
    /\ pf = PfIdle
    /\ dlg = DlgIdle

NextTarget ==
    \/ RT_Begin \/ RT_Config \/ RT_Light \/ RT_Start \/ RT_Probe \/ RT_Reconfig
    \/ RT_Measure \/ RT_PowerOff

SpecTarget == InitTarget /\ [][NextTarget]_vars

----------------------------------------------------------------------------
(* A call, with arguments good or bad, of one of sensor_read_target,       *)
(* sensor_read_target_raw, sensor_raw_read_loop,                           *)
(* sensor_gain_calibration_loop and sensor_find_gain_brightness.           *)

\* sensor_gain_calibration_loop is called with the sensor running
InitRatio ==
    /\ gc = GcIdle
    /\ fb = FbIdle
    /\ \E gain_low \in {"LOW", "MEDIUM", "HIGH"}, gain_high \in {"LOW", "MEDIUM"} :
          gl = GlCall(gain_low, gain_high, 200, GAIN_CAL_BRIGHTNESS_LOW_MED, "GAIN_MEDIUM")
    /\ cd = CdIdle
    /\ rl = RlIdle
    /\ rt = RtIdle
    /\ hw = sensor_start(sensor_set_config(HwIdle, "HIGH", 200))
    /\ settings = PriorSettings
    /\ obs = ObsInit
    /\ dm = DmIdle
    /\ leds = LightIdle
    /\ dens = DensInit
    /\ ts = TsIdle
    /\ pf = PfIdle
    /\ dlg = DlgIdle

\* sensor_find_gain_brightness is called with the sensor running
InitSearch ==
    /\ gc = GcIdle
    /\ \E start_brightness \in {0, 1, 2}, end_brightness \in {0, 2},
          target_factor \in {NaN, 9, 10, 100, 101} :
          fb = FbCall("HIGH", 200, start_brightness, end_brightness, target_factor)
    /\ gl = GlIdle
    /\ cd = CdIdle
    /\ rl = RlIdle
    /\ rt = RtIdle
    /\ hw = sensor_start(sensor_set_config(HwIdle, "HIGH", 200))
    /\ settings = PriorSettings
    /\ obs = ObsInit
    /\ dm = DmIdle
    /\ leds = LightIdle
    /\ dens = DensInit
    /\ ts = TsIdle
    /\ pf = PfIdle
    /\ dlg = DlgIdle

InitArgs == InitTarget \/ InitLoop \/ InitRatio \/ InitSearch

NextArgs ==
    \/ RT_Begin \/ RT_Config \/ RT_Light \/ RT_Start \/ RT_Probe \/ RT_Reconfig
    \/ RT_Measure \/ RT_PowerOff
    \/ FB_Begin \/ FB_Config \/ FB_Discard \/ FB_Callback \/ FB_Loop
    \/ FB_Sample \/ FB_Exit
    \/ GL_Begin \/ GL_Config \/ GL_Discard1 \/ GL_Discard2 \/ GL_Read
    \/ GL_Cooldown \/ GL_LowCallback \/ GL_Exit
    \/ CD_Step
    \/ RL_Begin \/ RL_Read \/ RL_Finish

SpecArgs == InitArgs /\ [][NextArgs]_vars

----------------------------------------------------------------------------
(* A call of sensor_find_gain_brightness with good arguments, counting upward
   or downward, with the sensor running. *)

\* start_brightness and end_brightness
FindScans == {<<1, 4>>, <<2, 6>>, <<3, 1>>, <<5, 2>>}

InitFind ==
    /\ gc = GcIdle
    /\ \E scan \in FindScans, target_factor \in {10, 75, 98} :
          fb = FbCall("HIGH", 200, scan[1], scan[2], target_factor)
    /\ gl = GlIdle
    /\ cd = CdIdle
    /\ rl = RlIdle
    /\ rt = RtIdle
    /\ hw = sensor_start(sensor_set_config(HwIdle, "HIGH", 200))
    /\ settings = PriorSettings
    /\ obs = ObsInit
    /\ dm = DmIdle
    /\ leds = LightIdle
    /\ dens = DensInit
    /\ ts = TsIdle
    /\ pf = PfIdle
    /\ dlg = DlgIdle

NextFind ==
    \/ FB_Begin \/ FB_Config \/ FB_Discard \/ FB_Callback \/ FB_Loop
    \/ FB_Sample \/ FB_Exit
    \/ RL_Begin \/ RL_Read \/ RL_Finish

SpecFind == InitFind /\ [][NextFind]_vars

----------------------------------------------------------------------------
(* A session of calls of the functions of densitometer.c. *)

InitDens ==
    /\ gc = GcIdle
    /\ fb = FbIdle
    /\ gl = GlIdle
    /\ cd = CdIdle
    /\ rl = RlIdle
    /\ rt = RtIdle
    /\ hw = HwIdle
    /\ \E p \in {Uncalibrated, Zeroed, Calibrated} :
          settings = WithPoints(PriorSettings, p)
    /\ obs = ObsInit
    /\ dm = DmIdle
    /\ leds = LightIdle
    /\ dens = DensInit
    /\ ts = TsIdle
    /\ pf = PfIdle
    /\ dlg = DlgIdle

NextDens == DM_Call \/ DM_Begin \/ DM_Light \/ DM_Read \/ DM_Finish

SpecDens == InitDens /\ [][NextDens]_vars

----------------------------------------------------------------------------
(* A measurement: a call of sensor_read_target or sensor_read_target_raw,  *)
(* or a session of densitometer.c.                                         *)

InitMeasure == InitTarget \/ InitDens

NextMeasure == NextTarget \/ NextDens

SpecMeasure == InitMeasure /\ [][NextMeasure]_vars

----------------------------------------------------------------------------
(* Task startup. *)

InitStartup ==
    /\ gc = GcIdle
    /\ fb = FbIdle
    /\ gl = GlIdle
    /\ cd = CdIdle
    /\ rl = RlIdle
    /\ rt = RtIdle
    /\ hw = HwIdle
    /\ settings = PriorSettings
    /\ obs = ObsInit
    /\ dm = DmIdle
    /\ leds = LightIdle
    /\ dens = DensInit
    /\ ts = TsIdle
    /\ pf = PfIdle
    /\ dlg = DlgIdle

NextStartup ==
    \/ TS_Init \/ TS_MainSetup \/ TS_Create \/ TS_Acquire
    \/ TS_TaskInit \/ TS_Release \/ TS_TaskLoop \/ TS_ControllerLoop

SpecStartup == InitStartup /\ [][NextStartup]_vars

\* Task startup under the scheduler: a thread that can take its next step
\* is given the processor in the end.
SpecStartupFair ==
    /\ SpecStartup
    /\ WF_vars(TS_Init) /\ WF_vars(TS_MainSetup) /\ WF_vars(TS_Create)
    /\ WF_vars(TS_Acquire) /\ WF_vars(TS_TaskInit) /\ WF_vars(TS_Release)
    /\ WF_vars(TS_TaskLoop) /\ WF_vars(TS_ControllerLoop)

----------------------------------------------------------------------------
(* A call of a function without side effects. *)

InitPure ==
    /\ gc = GcIdle
    /\ fb = FbIdle
    /\ gl = GlIdle
    /\ cd = CdIdle
    /\ rl = RlIdle
    /\ rt = RtIdle
    /\ hw = HwIdle
    /\ settings = PriorSettings
    /\ obs = ObsInit
    /\ dm = DmIdle
    /\ leds = LightIdle
    /\ dens = DensInit
    /\ ts = TsIdle
    /\ \/ \E ch0_val \in SaturationLevels, ch1_val \in SaturationLevels,
             time \in {100, 200, 600} :
             pf = PfCall("sensor_is_reading_saturated",
                         [ch0_val |-> ch0_val, ch1_val |-> ch1_val, time |-> time])
       \/ \E basic_reading \in SlopeReadings, cal_slope \in SlopeTables :
             pf = PfCall("sensor_apply_slope_calibration",
                         [basic_reading |-> basic_reading, cal_slope |-> cal_slope])
       \/ \E c \in ValidReflectionPoints, m1 \in MeasuredValues, m2 \in MeasuredValues :
             pf = PfCall("reflection_density", [c |-> c, m1 |-> m1, m2 |-> m2])
       \/ \E c \in ValidTransmissionPoints, m \in TransmissionValues :
             pf = PfCall("transmission_density", [c |-> c, m |-> m])
       \/ \E ch0_basic \in ChannelValues, ch1_basic \in ChannelValues :
             pf = PfCall("meas_value", [ch0_basic |-> ch0_basic, ch1_basic |-> ch1_basic])
       \/ \E r0 \in MatrixRows, r1 \in MatrixRows, r2 \in MatrixRows :
             pf = PfCall("gaussEliminationLS", AugmentedMatrix(r0, r1, r2))
    /\ dlg = DlgIdle

NextPure ==
    \/ PF_Saturated \/ PF_Slope \/ PF_Density \/ PF_Transmission
    \/ PF_MeasValue \/ PF_Gauss

SpecPure == InitPure /\ [][NextPure]_vars

----------------------------------------------------------------------------
(* The slope calibration dialog, opened and filled in by the user. *)

InitDialog ==
    /\ gc = GcIdle
    /\ fb = FbIdle
    /\ gl = GlIdle
    /\ cd = CdIdle
    /\ rl = RlIdle
    /\ rt = RtIdle
    /\ hw = HwIdle
    /\ settings = PriorSettings
    /\ obs = ObsInit
    /\ dm = DmIdle
    /\ leds = LightIdle
    /\ dens = DensInit
    /\ ts = TsIdle
    /\ pf = PfIdle
    /\ \E table \in DlgTables : dlg = [DlgIdle EXCEPT !.table = table]

NextDialog == onCalculateResults \/ onActionDelete \/ onClearReadings

SpecDialog == InitDialog /\ [][NextDialog]_vars

----------------------------------------------------------------------------
(* Properties of sensor_gain_calibration *)

Returned == gc.pc = "returned"
Has(log, status) == \E k \in 1..Len(log) : log[k] = status
InRange(gain, min, max) == gain # NaN /\ min <= gain /\ gain <= max

\* the statuses of a complete run, one entry per run of equal statuses
StageOrder ==
    <<"INIT", "LED", "COOLDOWN", "MEDIUM", "COOLDOWN", "MEDIUM", "COOLDOWN",
      "HIGH", "COOLDOWN", "HIGH", "COOLDOWN", "LED", "COOLDOWN",
      "MAXIMUM", "COOLDOWN", "MAXIMUM">>

\* the tables this run hands to the settings store
RunCalLight ==
    [reflection |-> 128, transmission |-> gc.measurement_led_brightness]
RunCalGain ==
    [ch0_medium |-> gc.gain_med_ch0, ch1_medium |-> gc.gain_med_ch1,
     ch0_high |-> gc.gain_high_ch0, ch1_high |-> gc.gain_high_ch1,
     ch0_maximum |-> gc.gain_max_ch0, ch1_maximum |-> gc.gain_max_ch1]

\* C1: whenever sensor_gain_calibration has returned, it has stopped the
\* sensor and switched the light off on its way out, and the sensor is
\* stopped and no light is lit or requested.  (Fails: a stop answered to the
\* INIT callback returns at once.)
C1_ReturnsWithHardwareIdle ==
    Returned =>
        /\ obs.idled
        /\ ~hw.running /\ ~LightLit(hw) /\ hw.pending = "NONE"

\* C2: a gain table that sensor_gain_calibration hands to the settings store
\* has all six multipliers inside their ranges, and so has the stored table
\* after the write.  (Fails: NaN passes the range check.)
C2_WrittenGainsInRange ==
    LET ok(t) ==
          /\ InRange(t.ch0_medium, TSL2591_GAIN_MEDIUM_MIN, TSL2591_GAIN_MEDIUM_MAX)
          /\ InRange(t.ch1_medium, TSL2591_GAIN_MEDIUM_MIN, TSL2591_GAIN_MEDIUM_MAX)
          /\ InRange(t.ch0_high, TSL2591_GAIN_HIGH_MIN, TSL2591_GAIN_HIGH_MAX)
          /\ InRange(t.ch1_high, TSL2591_GAIN_HIGH_MIN, TSL2591_GAIN_HIGH_MAX)
          /\ InRange(t.ch0_maximum,
                     TSL2591_GAIN_MAXIMUM_CH0_MIN, TSL2591_GAIN_MAXIMUM_CH0_MAX)
          /\ InRange(t.ch1_maximum,
                     TSL2591_GAIN_MAXIMUM_CH1_MIN, TSL2591_GAIN_MAXIMUM_CH1_MAX)
    IN  /\ obs.gain_write # "none" => ok(RunCalGain)
        /\ ok(settings.cal_gain)

\* C3: a run that returns an error has attempted no settings write and the
\* stored tables are the ones from before the run.
C3_ErrorReturnWritesNothing ==
    Returned /\ gc.ret # "osOK" =>
        /\ obs.light_write = "none"
        /\ obs.gain_write = "none"
        /\ settings = PriorSettings

\* a run stopped by the callback at the DONE report has returned an error
C3_Witness ==
    Returned /\ gc.ret # "osOK" /\ Has(obs.cb_log, "DONE")

\* C4: DONE is reported, success returned and a table written only when both
\* brightness searches selected a level other than 0 and the three gain-ratio
\* measurements were made.  (Fails: a search that selects 0 leaves ret osOK.)
C4_DoneOnlyAfterFullRun ==
    \/ Has(obs.cb_log, "DONE")
    \/ (Returned /\ gc.ret = "osOK")
    \/ obs.light_write # "none"
    \/ obs.gain_write # "none"
    => /\ gc.measurement_led_brightness # 0
       /\ gc.max_gain_led_brightness # 0
       /\ Has(obs.cb_log, "MEDIUM")
       /\ Has(obs.cb_log, "HIGH")
       /\ Has(obs.cb_log, "MAXIMUM")

\* C5: a run that returns success has stored both tables with its values.
\* (Fails: the result of either write is only logged.)
C5_SuccessStoresBothTables ==
    Returned /\ gc.ret = "osOK" =>
        /\ obs.light_write = "saved"
        /\ obs.gain_write = "saved"
        /\ settings.cal_light = RunCalLight
        /\ settings.cal_gain = RunCalGain

\* C6: after the callback has answered stop, no sensor configuration, sensor
\* reading or light activation happens, and the run returns an error.
C6_NoHardwareUseAfterStop ==
    /\ ~obs.hw_after_stop
    /\ (Returned /\ obs.stop_seen => gc.ret # "osOK")

\* a run stopped in the cool down between the two steps of the Medium
\* measurement has returned
C6_Witness ==
    /\ Returned
    /\ obs.stop_seen
    /\ obs.cb_log = <<"INIT", "LED", "COOLDOWN", "MEDIUM", "COOLDOWN", "FAILED">>

C8_RatioIsZeroOrQuotient ==
    gl.pc = "done" /\ gl.ret = "osOK" =>
        /\ gl.gain_ch0 # NaN /\ gl.gain_ch0 >= 0
        /\ gl.gain_ch1 # NaN /\ gl.gain_ch1 >= 0
        /\ gl.gain_ch0 = IF FLe(gl.ch0_avg_high, 0) \/ FLe(gl.ch0_avg_low, 0) THEN 0
                         ELSE FDiv(gl.ch0_avg_high, gl.ch0_avg_low)
        /\ gl.gain_ch1 = IF FLe(gl.ch1_avg_high, 0) \/ FLe(gl.ch1_avg_low, 0) THEN 0
                         ELSE FDiv(gl.ch1_avg_high, gl.ch1_avg_low)

----------------------------------------------------------------------------
(* Properties of sensor_raw_read_loop *)

\* C9: sensor_raw_read_loop never takes more than count readings; from its
\* first saturated reading on it takes no further reading and returns
\* success with every requested average NaN, whatever it had accumulated;
\* a call that returns success without a saturated reading has taken
\* exactly count readings and stores their geometric mean.
C9_ReadLoopStopsAtSaturation ==
    /\ obs.rl_taken <= rl.count
    /\ obs.rl_sat_taken > 0 =>
          /\ rl.pc \in {"finish", "done"}
          /\ obs.rl_taken = obs.rl_sat_taken
          /\ rl.ret = "osOK"
          /\ rl.pc = "done" =>
                /\ rl.ch0_avg = NaN
                /\ rl.want_ch1 => rl.ch1_avg = NaN
    /\ rl.pc = "done" /\ rl.ret = "osOK" /\ obs.rl_sat_taken = 0 =>
          /\ obs.rl_taken = rl.count
          /\ rl.ch0_avg = GeoMean(rl.ch0_sum, rl.count)
          /\ rl.ch0_avg # NaN

\* a call for four readings has returned after its third, saturated, reading
\* with readings accumulated before it
C9_Witness ==
    /\ rl.pc = "done"
    /\ rl.count = 4
    /\ obs.rl_sat_taken = 3
    /\ rl.ch0_sum > 1
    /\ rl.ch0_avg = NaN

----------------------------------------------------------------------------
(* Properties of sensor_read_target and sensor_read_target_raw *)

\* the cycle numbers of a complete measurement
ExpectedCycles(fn) ==
    [k \in 1..SENSOR_TARGET_READ_ITERATIONS |-> ExpectedCycle(fn, k - 1)]

IsPrefix(s, t) == Len(s) <= Len(t) /\ \A k \in 1..Len(s) : s[k] = t[k]

\* C10: a call that returns success has received measurement readings that
\* carry exactly the expected consecutive cycle numbers (4 then 5 for
\* sensor_read_target, 2 then 3 for the raw variant, which stops at a
\* saturated reading); a call that received a measurement reading with any
\* other cycle number returns osError and stores no result.
C10_SuccessOnlyOnExpectedCycles ==
    rt.pc = "returned" =>
        /\ rt.ret = "osOK" =>
              /\ rt.result.written
              /\ IsPrefix(rt.seqs, ExpectedCycles(rt.fn))
              /\ rt.seqs # <<>>
              /\ ~rt.saturated => rt.seqs = ExpectedCycles(rt.fn)
        /\ ~IsPrefix(rt.seqs, ExpectedCycles(rt.fn)) =>
              /\ rt.ret = "osError"
              /\ ~rt.result.written

\* sensor_read_target has returned success after the cycles 4 and 5
C10_Witness ==
    /\ rt.pc = "returned"
    /\ rt.fn = "target"
    /\ rt.ret = "osOK"
    /\ rt.seqs = <<4, 5>>
    /\ rt.result.written

\* C11: once its parameters have passed validation, a call of
\* sensor_read_target or sensor_read_target_raw that has returned has run
\* its sensor_stop and light-off calls, and the sensor is stopped and no
\* light is lit or requested, whatever the outcome.
C11_TargetReadIdlesHardware ==
    rt.pc = "returned" /\ rt.ret # "osErrorParameter" =>
        /\ obs.idled
        /\ ~hw.running /\ ~LightLit(hw) /\ hw.pending = "NONE"

\* sensor_read_target has returned an error after a cycle number other than
\* the expected one, with the sensor started and the light requested before
C11_Witness ==
    /\ rt.pc = "returned"
    /\ rt.fn = "target"
    /\ rt.light_source = "TRANSMISSION"
    /\ rt.ret = "osError"
    /\ rt.seqs = <<4, 6>>
    /\ ~hw.running

\* C20: a saturated measurement reading (with the expected cycle number)
\* makes sensor_read_target_raw return success with both results 65535,
\* and makes sensor_read_target return osError without a result.
C20_SaturationSentinelOrError ==
    rt.pc = "returned" /\ rt.sat_seen =>
        /\ rt.fn = "raw" =>
              /\ rt.ret = "osOK"
              /\ rt.result = [written |-> TRUE, ch0 |-> 65535, ch1 |-> 65535]
        /\ rt.fn = "target" =>
              /\ rt.ret = "osError"
              /\ ~rt.result.written

\* the raw variant has returned after a saturated second reading
C20_Witness ==
    /\ rt.pc = "returned"
    /\ rt.fn = "raw"
    /\ rt.sat_seen
    /\ rt.seqs = <<2, 3>>
    /\ rt.ch0_sum > 0
    /\ rt.result.ch0 = 65535

----------------------------------------------------------------------------
(* Properties of densitometer.c *)

DmReturned == dm.pc = "returned"

\* the idle brightness of the light a function uses
IdleOf(fn) ==
    IF fn \in ReflectionFns THEN LIGHT_REFLECTION_IDLE ELSE LIGHT_TRANSMISSION_IDLE

\* the value the function judged: ch0 minus ch1
DmMeasValue == MeasValue(dm.ch0_basic, dm.ch1_basic)

\* sensor_read was called and returned HAL_OK
DmReadOk == dm.read /\ dm.result # "DENSITOMETER_SENSOR_ERROR"

\* C12: a point-calibration helper that has switched its light on has the
\* light back at its idle brightness when it returns, on every exit path.
\* (Fails: the return for a magnitude below 0.01 leaves the light on.)
C12_HelperIdlesLight ==
    (DmReturned /\ dm.fn \in Calibrations /\ dm.lit)
        => LightOf(leds, dm.fn) = IdleOf(dm.fn)

\* C13: densitometer_reflection_measure and densitometer_transmission_measure
\* leave the light they switched on at its idle brightness, which is neither
\* full nor off, on success and on a sensor-read error alike.
C13_MeasureIdlesLight ==
    (DmReturned /\ dm.fn \in Measures /\ dm.lit)
        => /\ LightOf(leds, dm.fn) = IdleOf(dm.fn)
           /\ LightOf(leds, dm.fn) \notin {0, 128}

\* a measurement has returned a sensor error after switching its light on
C13_Witness ==
    /\ DmReturned /\ dm.fn = "transmission_measure" /\ dm.lit
    /\ dm.result = "DENSITOMETER_SENSOR_ERROR"

\* the points a measurement reads are the uncalibrated sentinel
SentinelPoints(fn, s) ==
    IF fn = "reflection_measure"
    THEN \/ s.cal_reflection = Uncalibrated.cal_reflection
         \/ s.cal_reflection = Zeroed.cal_reflection
    ELSE \/ s.cal_transmission = Uncalibrated.cal_transmission
         \/ s.cal_transmission = Zeroed.cal_transmission

\* C14: with the stored calibration points at the uncalibrated sentinel
\* (not-a-number, or zero) a measurement returns a calibration error and
\* never OK with a computed density.  (Fails: every comparison of the check
\* is false on not-a-number.)
C14_UncalibratedIsCalError ==
    (DmReturned /\ dm.fn \in Measures /\ SentinelPoints(dm.fn, dm.before.settings))
        => dm.result = "DENSITOMETER_CAL_ERROR"

\* hi_density > lo_density and hi_reading < lo_reading
ReflectionPointsOrdered(c) == FGt(c.hi_d, c.lo_d) /\ FLt(c.hi_value, c.lo_value)

\* C15: densitometer_reflection_measure switches a light on and reads the
\* sensor only when the stored reflection points have hi_density > lo_density
\* and hi_reading < lo_reading; otherwise it returns a calibration error with
\* the lights, the sensor and the last reflection reading untouched.  (Fails
\* for points that are not-a-number.)
C15_ReflectionNeedsOrderedPoints ==
    /\ (dm.fn = "reflection_measure" /\ (dm.lit \/ dm.read))
          => ReflectionPointsOrdered(settings.cal_reflection)
    /\ (DmReturned /\ dm.fn = "reflection_measure"
          /\ ~ReflectionPointsOrdered(settings.cal_reflection))
          => /\ dm.result = "DENSITOMETER_CAL_ERROR"
             /\ leds = dm.before.light
             /\ ~dm.read
             /\ dens = dm.before.dens

\* the supplied density is within the range allowed for the helper
DensityAllowed(fn, d) ==
    CASE fn \in {"calibrate_reflection_lo", "calibrate_reflection_hi"} ->
           FGe(d, 0) /\ FLe(d, 250)
      [] fn = "calibrate_transmission_hi" -> FGe(d, 0) /\ FLe(d, 400)
      [] OTHER -> TRUE

\* C16: a point-calibration helper writes its pair if and only if it returns
\* OK, which happens exactly when the density is within the allowed range,
\* the sensor read succeeded and the magnitude is at least 0.01; on an error
\* the stored points are unchanged.  (Fails: a density that is not-a-number
\* passes the range check.)
C16_HelperStoresIffOk ==
    (DmReturned /\ dm.fn \in Calibrations)
        => /\ (settings # dm.before.settings) => dm.result = "DENSITOMETER_OK"
           /\ dm.result = "DENSITOMETER_OK"
                => settings = StorePoint(dm.before.settings, dm.fn, dm.d, DmMeasValue)
           /\ dm.result = "DENSITOMETER_OK"
                <=> /\ DensityAllowed(dm.fn, dm.d)
                    /\ DmReadOk
                    /\ FGe(DmMeasValue, 1)
           /\ dm.result # "DENSITOMETER_OK" => settings = dm.before.settings

\* the stored reflection points contradict each other
ReflectionPointsCrossed(c) == FLe(c.hi_d, c.lo_d) \/ FGe(c.hi_value, c.lo_value)

\* C17: calibrating a reflection point returns OK and stores the pair
\* whatever the other point is, and when the stored points then have
\* hi_density <= lo_density or hi_reading >= lo_reading the next
\* densitometer_reflection_measure returns a calibration error and no density.
C17_CrossCheckAtMeasurement ==
    /\ (DmReturned /\ dm.fn \in {"calibrate_reflection_lo", "calibrate_reflection_hi"}
          /\ DensityAllowed(dm.fn, dm.d) /\ DmReadOk /\ FGe(DmMeasValue, 1))
          => /\ dm.result = "DENSITOMETER_OK"
             /\ settings = StorePoint(dm.before.settings, dm.fn, dm.d, DmMeasValue)
    /\ (DmReturned /\ dm.fn = "reflection_measure"
          /\ dm.prev.fn \in {"calibrate_reflection_lo", "calibrate_reflection_hi"}
          /\ dm.prev.result = "DENSITOMETER_OK"
          /\ ReflectionPointsCrossed(settings.cal_reflection))
          => /\ dm.result = "DENSITOMETER_CAL_ERROR"
             /\ dens = dm.before.dens

\* a reflection point was stored that contradicts the other one, and the
\* measurement that followed has returned
C17_Witness ==
    /\ DmReturned /\ dm.fn = "reflection_measure"
    /\ dm.prev.fn = "calibrate_reflection_hi"
    /\ dm.prev.result = "DENSITOMETER_OK"
    /\ FLe(settings.cal_reflection.hi_d, settings.cal_reflection.lo_d)
    /\ dm.result = "DENSITOMETER_CAL_ERROR"

\* a measurement procedure is between its call and its return
Measuring ==
    \/ rt.pc \notin {"idle", "returned"}
    \/ dm.fn \in Measures /\ dm.pc \notin {"idle", "returned"}

\* C18: no step of sensor_read_target, sensor_read_target_raw,
\* densitometer_reflection_measure or densitometer_transmission_measure
\* changes a calibration setting, whatever the outcome.
C18_MeasurementKeepsSettings ==
    [][Measuring => settings' = settings]_vars

\* a measurement has returned a density with calibrated settings in place
C18_Witness ==
    /\ DmReturned /\ dm.fn \in Measures /\ dm.result = "DENSITOMETER_OK"
    /\ dens # dm.before.dens
    /\ settings = WithPoints(PriorSettings, Calibrated)

----------------------------------------------------------------------------
(* Properties of task startup *)

\* the task has released the startup semaphore
Signalled(k) == ts.task[k] = "running"

\* C19: task i+1 is not created until task i has signalled the startup
\* semaphore after initialising its subsystem, and the controller loop starts
\* only after every task that was created has signalled, whatever the order
\* in which the tasks are scheduled.  A task whose creation failed is
\* passed over without a wait.
C19_StartupInOrder ==
    /\ \A k \in StartedTasks :
         (k + 1 \in StartedTasks /\ ts.task[k + 1] # "none")
            => (Signalled(k) \/ ts.task[k] = "create_error")
    /\ \A k \in StartedTasks : Signalled(k) => ts.inited[k]
    /\ ts.main = "loop"
         => \A k \in StartedTasks : Signalled(k) \/ ts.task[k] = "create_error"

\* the controller loop runs with both tasks created and signalled
C19_Witness ==
    /\ ts.main = "loop" /\ ts.loops > 0
    /\ \A k \in StartedTasks : Signalled(k) /\ ts.inited[k]

----------------------------------------------------------------------------
(* Properties of the argument checks of sensor.c *)

\* the call in progress has bad arguments, in the words of the interface
BadArguments ==
    \/ rt.pc # "idle" /\ rt.fn = "target"
         /\ rt.light_source \notin {"REFLECTION", "TRANSMISSION"}
    \/ rt.pc # "idle" /\ rt.fn = "raw"
         /\ \/ rt.light_source \notin {"OFF", "REFLECTION", "TRANSMISSION"}
            \/ rt.gain \notin {"LOW", "MEDIUM", "HIGH", "MAXIMUM"}
            \/ rt.time \notin {100, 200, 300, 400, 500, 600}
    \/ rl.pc # "idle" /\ fb.pc = "idle" /\ gl.pc = "idle" /\ rl.count = 0
    \/ gl.pc # "idle" /\ GainRank(gl.gain_low) >= GainRank(gl.gain_high)
    \/ fb.pc # "idle"
         /\ \/ fb.start_brightness = 0
            \/ fb.start_brightness = fb.end_brightness
            \/ ~(fb.target_factor >= 10 /\ fb.target_factor <= 100)

\* the call has returned, and with which status
ArgsReturned ==
    \/ rt.pc = "returned"
    \/ rl.pc = "done" /\ fb.pc = "idle" /\ gl.pc = "idle"
    \/ gl.pc = "done"
    \/ fb.pc = "done"

ArgsStatus ==
    IF rt.pc # "idle" THEN rt.ret
    ELSE IF gl.pc # "idle" THEN gl.ret
    ELSE IF fb.pc # "idle" THEN fb.ret
    ELSE rl.ret

\* C21: a call with bad arguments returns a parameter error, and no hardware
\* access, reading or callback is made in it.
C21_BadArgumentsTouchNothing ==
    BadArguments
        => /\ ~obs.hw_used /\ ~obs.idled
           /\ obs.cb_log = <<>> /\ obs.rl_taken = 0
           /\ rt.callbacks = 0 /\ rt.seqs = <<>>
           /\ ArgsReturned => ArgsStatus = "osErrorParameter"

\* a brightness search called with a target factor above 1.0 has returned
C21_Witness ==
    /\ fb.pc = "done" /\ fb.target_factor = 101
    /\ fb.start_brightness = 1 /\ fb.end_brightness = 2
    /\ fb.ret = "osErrorParameter"

\* the gain the probe reading calls for
GainForProbe(probe) ==
    IF probe.ch0 > 32700 \/ probe.ch1 > 32700 THEN "HIGH" ELSE "MAXIMUM"

\* C22: sensor_read_target takes its measurement readings at High gain when
\* the probe reading has ch0 or ch1 above 32700 and at Maximum gain otherwise,
\* always at the 200 ms setting made after the probe.
C22_ProbeSelectsGain ==
    (rt.fn = "target"
       /\ (rt.pc = "measure" \/ (rt.pc = "poweroff" /\ rt.seqs # <<>>)))
        => /\ hw.gain = GainForProbe(rt.probe)
           /\ hw.time = 200
           /\ rt.callbacks = 1 + Len(rt.seqs)

\* a probe with both channels at 32700 was followed by a measurement reading
C22_Witness ==
    /\ rt.fn = "target" /\ rt.pc = "measure" /\ rt.seqs # <<>>
    /\ rt.probe = [ch0 |-> 32700, ch1 |-> 32700]
    /\ hw.gain = "MAXIMUM"

----------------------------------------------------------------------------
(* Properties of the functions without side effects *)

PfDone(fn) == pf.pc = "done" /\ pf.fn = fn

\* C23: sensor_is_reading_saturated is true exactly when ch0 or ch1 is at or
\* above the ceiling of the reading's integration time: the analog ceiling at
\* 100 ms, the digital ceiling at every other setting.
C23_SaturatedAtOrAboveCeiling ==
    PfDone("sensor_is_reading_saturated")
        => LET ceiling == IF pf.arg.time = 100 THEN TSL2591_ANALOG_SATURATION
                          ELSE TSL2591_DIGITAL_SATURATION
           IN  pf.out <=> (pf.arg.ch0_val >= ceiling \/ pf.arg.ch1_val >= ceiling)

\* a 100 ms reading with channel 1 exactly at the analog ceiling is saturated
C23_Witness ==
    /\ PfDone("sensor_is_reading_saturated")
    /\ pf.arg.time = 100 /\ pf.arg.ch0_val = 0
    /\ pf.arg.ch1_val = TSL2591_ANALOG_SATURATION
    /\ pf.out

\* C24: sensor_apply_slope_calibration returns its input unchanged when the
\* input is NaN, infinite, zero or negative or the stored coefficients are
\* missing or invalid; a positive finite reading with valid coefficients is
\* transformed by them.
C24_SlopePassesThrough ==
    PfDone("sensor_apply_slope_calibration")
        => LET x == pf.arg.basic_reading
               c == pf.arg.cal_slope
               usable == x # NaN /\ x # Inf /\ x # 0 - Inf /\ x > 0
           IN  IF usable /\ c.valid
               THEN pf.out = SlopePow(c.b0 + c.b1 * SlopeLog(x)
                                        + c.b2 * SlopeLog(x) * SlopeLog(x))
               ELSE pf.out = x

\* a positive reading met missing coefficients and came back unchanged
C24_Witness ==
    /\ PfDone("sensor_apply_slope_calibration")
    /\ pf.arg.basic_reading = 1000 /\ ~pf.arg.cal_slope.valid
    /\ pf.arg.cal_slope.b0 = NaN
    /\ pf.out = 1000

\* C29: for fixed valid reflection calibration points the density is
\* non-increasing in the measured value.
C29_DensityNonIncreasing ==
    (PfDone("reflection_density") /\ pf.arg.m1 <= pf.arg.m2)
        => /\ pf.out.d1 # NaN /\ pf.out.d2 # NaN
           /\ pf.out.d1 >= pf.out.d2

\* a larger measured value gave a strictly smaller density
C29_Witness ==
    /\ PfDone("reflection_density") /\ pf.arg.m1 < pf.arg.m2
    /\ pf.arg.m1 > 0 /\ pf.out.d1 > pf.out.d2

\* C30: for valid reflection calibration points (readings of at least 0.01,
\* as the point calibrations store them) a measured value equal to the lo
\* reading has the lo density, and one equal to the hi reading the hi density.
C30_DensityAtCalibrationPoints ==
    PfDone("reflection_density")
        => /\ pf.arg.m1 = pf.arg.c.lo_value => pf.out.d1 = pf.arg.c.lo_d
           /\ pf.arg.m1 = pf.arg.c.hi_value => pf.out.d1 = pf.arg.c.hi_d

\* the hi reading was measured and has the hi density
C30_Witness ==
    /\ PfDone("reflection_density")
    /\ pf.arg.m1 = pf.arg.c.hi_value /\ pf.arg.m2 = pf.arg.c.lo_value
    /\ pf.out.d1 = pf.arg.c.hi_d /\ pf.out.d2 = pf.arg.c.lo_d


----------------------------------------------------------------------------
(* Properties of the slope calibration dialog *)

\* the last click was on "Calculate"
Calculated == dlg.op = "calculate"

RowComplete(table, row) == \A col \in 1..2 : table[row][col].item /\ table[row][col].ok

\* the first row whose density or reading is missing or does not parse
FirstInvalidRow(table) ==
    LET bad == {row \in 0..(TableRows - 1) : ~RowComplete(table, row)}
    IN  IF bad = {} THEN TableRows
        ELSE CHOOSE row \in bad : \A other \in bad : row <= other

\* row 0 is complete and its density lies in [0, 0.001]
FirstRowAccepted(table) == RowComplete(table, 0) /\ table[0][1].value \in 0..1

\* the rows of the valid prefix of the table
UsableRows(table) == IF FirstRowAccepted(table) THEN FirstInvalidRow(table) ELSE 0

\* C25: a calculation publishes coefficients (result values, line edits, OK
\* enabled) exactly when the valid prefix of the table has at least 5 rows;
\* with fewer rows the stored coefficients and the OK button stay as they were.
C25_FiveRowsForAResult ==
    Calculated =>
        IF UsableRows(dlg.table) >= 5
        THEN /\ dlg.result
             /\ dlg.ok_enabled
             /\ dlg.calValues = polyfit(dlg.xList, dlg.yList)
             /\ dlg.shown = dlg.calValues
        ELSE /\ ~dlg.result
             /\ dlg.calValues = dlg.before.calValues
             /\ dlg.ok_enabled = dlg.before.ok_enabled

C25_Witness ==
    /\ Calculated
    /\ UsableRows(dlg.table) = 5
    /\ ~dlg.before.ok_enabled
    /\ dlg.ok_enabled
    /\ dlg.calValues # NaNTriple

\* a calculation on four rows after an earlier result: the earlier result stays
FourRowsKeepResult ==
    /\ Calculated
    /\ UsableRows(dlg.table) = 4
    /\ dlg.before.ok_enabled
    /\ dlg.ok_enabled
    /\ dlg.calValues # NaNTriple

\* five or more rows were collected and all of them have the same reading
DegenerateRows ==
    /\ Len(dlg.xList) >= 5
    /\ \A i, j \in 1..Len(dlg.xList) : dlg.xList[i] = dlg.xList[j]

\* C26: a calculation on degenerate rows (five or more rows with the same
\* reading) reports no result: it publishes no coefficients and does not
\* enable the OK button.
C26_DegenerateRowsNoResult ==
    (Calculated /\ DegenerateRows) =>
        /\ ~dlg.result
        /\ dlg.calValues = dlg.before.calValues
        /\ dlg.ok_enabled = dlg.before.ok_enabled

\* what the code does on such rows: not-a-number coefficients are published
\* and the OK button is enabled
DegenerateRowsPublished ==
    /\ Calculated
    /\ DegenerateRows
    /\ dlg.result
    /\ dlg.calValues = NaNTriple
    /\ dlg.ok_enabled
    /\ ~dlg.before.ok_enabled

\* the points of the first n rows of the table: x is the logarithm of the
\* row's reading, y the logarithm of the reading of row 0 less the row's density
PrefixX(table, n) == [i \in 1..n |-> 1000 * Log10Pow(table[i - 1][2].value)]

PrefixY(table, n) ==
    [i \in 1..n |->
        IF i = 1 THEN 1000 * Log10Pow(table[0][2].value)
        ELSE 1000 * Log10Pow(table[0][2].value) - table[i - 1][1].value]

\* C27: the fit uses exactly the rows before the first row whose density or
\* reading is missing or does not parse; that row and the rows after it add
\* neither a point nor a count, complete or not.
C27_FitUsesValidPrefix ==
    Calculated =>
        /\ Len(dlg.xList) <= FirstInvalidRow(dlg.table)
        /\ dlg.xList = PrefixX(dlg.table, UsableRows(dlg.table))
        /\ dlg.yList = PrefixY(dlg.table, UsableRows(dlg.table))
        /\ dlg.result =>
               dlg.calValues = polyfit(PrefixX(dlg.table, FirstInvalidRow(dlg.table)),
                                       PrefixY(dlg.table, FirstInvalidRow(dlg.table)))

C27_Witness ==
    /\ Calculated
    /\ FirstInvalidRow(dlg.table) = 5
    /\ RowComplete(dlg.table, 6)
    /\ Len(dlg.xList) = 5
    /\ dlg.result
    /\ dlg.calValues # NaNTriple

\* C28: a row 0 whose density is outside [0, 0.001] leaves the calculation
\* without a result however many complete rows follow; otherwise row 0 gives
\* the point whose x and y are both the logarithm of its reading, and the y of
\* every later row is that logarithm less the row's density.
C28_FirstRowIsTheBase ==
    Calculated =>
        /\ (RowComplete(dlg.table, 0) /\ dlg.table[0][1].value \notin 0..1) =>
               /\ dlg.xList = <<>>
               /\ ~dlg.result
               /\ dlg.calValues = dlg.before.calValues
               /\ dlg.ok_enabled = dlg.before.ok_enabled
        /\ dlg.xList # <<>> =>
               /\ dlg.table[0][1].value \in 0..1
               /\ dlg.xList[1] = 1000 * Log10Pow(dlg.table[0][2].value)
               /\ dlg.yList[1] = dlg.xList[1]
               /\ \A i \in 2..Len(dlg.yList) :
                      dlg.yList[i] + dlg.table[i - 1][1].value = dlg.xList[1]

C28_Witness ==
    /\ Calculated
    /\ dlg.table[0][1].value = 2
    /\ FirstInvalidRow(dlg.table) = TableRows
    /\ dlg.xList = <<>>
    /\ ~dlg.result
    /\ ~dlg.ok_enabled

\* a calculation whose row 0 is accepted and is the base of the later rows
FirstRowIsBaseOfLaterRows ==
    /\ Calculated
    /\ dlg.table[0][1].value = 1
    /\ Len(dlg.yList) >= 5
    /\ dlg.xList[1] = 2000
    /\ dlg.yList[5] = 2000 - 1200
    /\ dlg.result

----------------------------------------------------------------------------
(* Properties of the transmission density *)

\* C31: for valid transmission points a measured value equal to the hi
\* reading has the hi density and one equal to the zero reading density 0;
\* the result is the density relative to the zero reading scaled by the hi
\* density over the density the hi reading itself has relative to zero.
C31_TransmissionAtCalibrationPoints ==
    PfDone("transmission_density") =>
        LET c == pf.arg.c
            m == pf.arg.m
            implied == log10f(c.zero_value) - log10f(c.hi_value)
        IN  /\ m = c.hi_value => pf.out = c.hi_d
            /\ m = c.zero_value => pf.out = 0
            /\ m > 0 =>
                   pf.out = ((log10f(c.zero_value) - log10f(m)) * c.hi_d) \div implied

C31_Witness ==
    /\ PfDone("transmission_density")
    /\ pf.arg.c.zero_value = 100000
    /\ pf.arg.c.hi_value = 100
    /\ pf.arg.m = 100
    /\ pf.out = 300

----------------------------------------------------------------------------
(* Properties of sensor_find_gain_brightness *)

\* the search has returned osOK
FindReturned == fb.pc = "done" /\ fb.ret = "osOK"

CountsUpward == fb.start_brightness < fb.end_brightness

\* the distance of a sample to the target reading
TargetDistance(ch0) == fabsf(TargetCh0(fb.time, fb.target_factor) - ch0)

\* the k-th sample is saturated or no closer to the target than the one before
EndsRun(k) ==
    \/ isnanf(fb.tested[k].ch0)
    \/ k > 1 /\ TargetDistance(fb.tested[k].ch0) >= TargetDistance(fb.tested[k - 1].ch0)

\* C32: counting upward, the search tests start, start + 1, ... and ends at
\* the first sample that is saturated or no closer to the target than the
\* best before it; it returns the level tested before that sample, whose
\* sample is the closest of the run, and 0 when the first sample is saturated.
C32_UpwardReturnsBestOfRun ==
    (FindReturned /\ CountsUpward) =>
        LET n == Len(fb.tested)
            ends == {k \in 1..n : EndsRun(k)}
        IN  /\ \A k \in 1..n : fb.tested[k].led = fb.start_brightness + k - 1
            /\ ends \subseteq {n}
            /\ ends # {} =>
                   fb.closest_led = IF n = 1 THEN 0 ELSE fb.tested[n - 1].led
            /\ (n >= 1 /\ isnanf(fb.tested[1].ch0)) => fb.closest_led = 0
            /\ fb.closest_led # 0 =>
                   \A k \in 1..n :
                       \/ isnanf(fb.tested[k].ch0)
                       \/ TargetDistance(fb.closest_ch0) <= TargetDistance(fb.tested[k].ch0)

C32_Witness ==
    /\ FindReturned
    /\ CountsUpward
    /\ Len(fb.tested) = 3
    /\ ~isnanf(fb.tested[3].ch0)
    /\ EndsRun(3)
    /\ fb.closest_led = fb.start_brightness + 1

\* an upward search whose first sample is saturated returns 0
FirstSampleSaturated ==
    /\ FindReturned
    /\ CountsUpward
    /\ Len(fb.tested) = 1
    /\ isnanf(fb.tested[1].ch0)
    /\ fb.closest_led = 0

\* the k-th sample is not saturated and at or below the target reading
Usable(k) ==
    /\ ~isnanf(fb.tested[k].ch0)
    /\ fb.tested[k].ch0 <= TargetCh0(fb.time, fb.target_factor)

\* C33: counting downward, the search tests start, start - 1, ... and returns
\* the first level whose sample is not saturated and at or below the target
\* reading, testing no level after it; it returns 0 when no tested level
\* has such a sample.
C33_DownwardReturnsFirstUsable ==
    (FindReturned /\ ~CountsUpward) =>
        LET n == Len(fb.tested)
            usable == {k \in 1..n : Usable(k)}
        IN  /\ \A k \in 1..n : fb.tested[k].led = fb.start_brightness - k + 1
            /\ usable \subseteq {n}
            /\ usable # {} =>
                   /\ fb.closest_led = fb.tested[n].led
                   /\ fb.closest_ch0 = fb.tested[n].ch0
            /\ usable = {} => fb.closest_led = 0

C33_Witness ==
    /\ FindReturned
    /\ ~CountsUpward
    /\ Len(fb.tested) = 2
    /\ isnanf(fb.tested[1].ch0)
    /\ Usable(2)
    /\ fb.closest_led = fb.start_brightness - 1
    /\ fb.closest_led > fb.end_brightness + 1

\* a downward search without a usable sample returns 0
NoUsableSample ==
    /\ FindReturned
    /\ ~CountsUpward
    /\ Len(fb.tested) >= 2
    /\ \A k \in 1..Len(fb.tested) : ~Usable(k)
    /\ fb.closest_led = 0

\* a tested sample has ended the scan
ScanEnded ==
    \E k \in 1..Len(fb.tested) : IF CountsUpward THEN EndsRun(k) ELSE Usable(k)

\* C34: the search tests every level from start_brightness to end_brightness
\* inclusive: when no earlier level ends the scan, the end_brightness level
\* is sampled.
C34_EndLevelIsTested ==
    (FindReturned /\ ~ScanEnded) =>
        \E k \in 1..Len(fb.tested) : fb.tested[k].led = fb.end_brightness

\* what the code does: the loop is left when i reaches end_brightness, so
\* that level is never sampled and never selected
EndLevelNotTested ==
    /\ \A k \in 1..Len(fb.tested) : fb.tested[k].led # fb.end_brightness
    /\ FindReturned => fb.closest_led # fb.end_brightness

\* a scan that no sample ended has stopped one level short of end_brightness
ScanStopsShortOfEnd ==
    /\ FindReturned
    /\ ~ScanEnded
    /\ CountsUpward
    /\ Len(fb.tested) = fb.end_brightness - fb.start_brightness
    /\ fb.closest_led = fb.end_brightness - 1

----------------------------------------------------------------------------
(* Properties of the cool down *)

\* C35: throughout a cool down of the gain calibration (its COOLDOWN
\* callbacks and the waits after them) the LED is off and no light is
\* requested for the next cycle: the brightness search or gain measurement
\* before it has switched the light off.
C35_CooldownWithLedOff ==
    cd.pc \in {"run", "done"} =>
        /\ ~LightLit(hw)
        /\ hw.light = "OFF"
        /\ hw.pending = "NONE"

C35_Witness ==
    /\ cd.pc = "run"
    /\ cd.i = 2
    /\ gl.pc = "cooldown"
    /\ gl.ch0_avg_high > 0
    /\ hw.light = "OFF"

\* the cool down that follows a brightness search
CooldownAfterSearch ==
    /\ cd.pc = "run"
    /\ gc.pc = "cool1"
    /\ gc.measurement_led_brightness > 0
    /\ hw.light = "OFF"

----------------------------------------------------------------------------
(* Properties of the gain multipliers *)

\* a value after its range validation
Validated(gain, min, typ, max) ==
    IF gain # NaN /\ (gain < min \/ gain > max) THEN typ ELSE gain

\* a gain measurement has returned osOK and sensor_gain_calibration takes
\* its ratios
TakesRatios(stage) ==
    /\ gc.pc = stage
    /\ gl.pc = "done"
    /\ gl.ret = "osOK"
    /\ gc'.pc # stage

\* C36: the Medium multipliers are the measured ratios after range
\* validation; the High multipliers are the measured High/Medium ratios times
\* the Medium multipliers as validated, the Maximum multipliers the measured
\* ratios times the High multipliers as validated, and each product goes
\* through its own range validation before it is kept.
C36_GainsAreChained ==
    [][ /\ TakesRatios("medium") =>
             /\ gc'.gain_med_ch0 = Validated(gl.gain_ch0, TSL2591_GAIN_MEDIUM_MIN,
                     TSL2591_GAIN_MEDIUM_TYP, TSL2591_GAIN_MEDIUM_MAX)
             /\ gc'.gain_med_ch1 = Validated(gl.gain_ch1, TSL2591_GAIN_MEDIUM_MIN,
                     TSL2591_GAIN_MEDIUM_TYP, TSL2591_GAIN_MEDIUM_MAX)
        /\ TakesRatios("high") =>
             /\ gc'.gain_high_ch0 = Validated(FMul(gl.gain_ch0, gc.gain_med_ch0),
                     TSL2591_GAIN_HIGH_MIN, TSL2591_GAIN_HIGH_TYP, TSL2591_GAIN_HIGH_MAX)
             /\ gc'.gain_high_ch1 = Validated(FMul(gl.gain_ch1, gc.gain_med_ch1),
                     TSL2591_GAIN_HIGH_MIN, TSL2591_GAIN_HIGH_TYP, TSL2591_GAIN_HIGH_MAX)
        /\ TakesRatios("maximum") =>
             /\ gc'.gain_max_ch0 = Validated(FMul(gl.gain_ch0, gc.gain_high_ch0),
                     TSL2591_GAIN_MAXIMUM_CH0_MIN, TSL2591_GAIN_MAXIMUM_CH0_TYP,
                     TSL2591_GAIN_MAXIMUM_CH0_MAX)
             /\ gc'.gain_max_ch1 = Validated(FMul(gl.gain_ch1, gc.gain_high_ch1),
                     TSL2591_GAIN_MAXIMUM_CH1_MIN, TSL2591_GAIN_MAXIMUM_CH1_TYP,
                     TSL2591_GAIN_MAXIMUM_CH1_MAX)
        /\ gc'.gain_med_ch0 # gc.gain_med_ch0 => gc.pc \in {"medium", "idle"}
        /\ gc'.gain_high_ch0 # gc.gain_high_ch0 => gc.pc \in {"high", "idle"}
      ]_vars

\* the High multiplier was formed on a Medium multiplier that had been
\* replaced by the typical value, and the Maximum ratios are about to be taken
C36_Witness ==
    /\ gc.pc = "maximum"
    /\ gl.pc = "done"
    /\ gl.ret = "osOK"
    /\ gc.gain_med_ch0 = TSL2591_GAIN_MEDIUM_TYP
    /\ gc.gain_high_ch0 # NaN
    /\ gl.gain_ch0 > 0

\* a High multiplier that is a product kept by its range validation
ChainedProductKept ==
    /\ gc.pc = "cool3"
    /\ gc.gain_high_ch0 \notin {NaN, TSL2591_GAIN_HIGH_TYP}
    /\ gc.gain_high_ch0 >= TSL2591_GAIN_HIGH_MIN
    /\ gc.gain_high_ch0 <= TSL2591_GAIN_HIGH_MAX

----------------------------------------------------------------------------
(* Progress of the task startup *)

\* C37: under fair scheduling task_main_run, once started, reaches the
\* controller loop in the end, whether the creation of a task fails or the
\* initialisation of a created task fails.
C37_StartupReachesLoop == (ts.main = "start") ~> (ts.main = "loop")

\* what holds: the controller loop is reached unless the initialisation of a
\* created task has failed; a failed creation does not hold the startup up
StartupReachesLoopUnlessInitFails ==
    (ts.main = "start") ~>
        (ts.main = "loop" \/ \E k \in StartedTasks : ts.task[k] = "init_error")

\* the main task waits for the semaphore of a task that has returned
\* without releasing it
MainWaitsForFailedTask ==
    /\ ts.main = "acquire"
    /\ ts.task[ts.i] = "init_error"
    /\ ts.sem = 0

----------------------------------------------------------------------------
(* Properties of the stored last densities *)

\* the step is the return of fn with DENSITOMETER_OK
ReturnsOk(fn) ==
    /\ dm.fn = fn
    /\ dm.pc # "returned"
    /\ dm'.pc = "returned"
    /\ dm'.result = "DENSITOMETER_OK"

\* C38: the stored last reflection density is NaN at the start and changes
\* only when densitometer_reflection_measure returns OK, the stored last
\* transmission density only when densitometer_transmission_measure returns
\* OK; a failed measurement, a measurement of the other kind and the point
\* calibrations leave the stored value as it is.
C38_LastDensityChangesOnSuccess ==
    /\ dens.reflection_d = NaN
    /\ dens.transmission_d = NaN
    /\ [][ /\ dens'.reflection_d # dens.reflection_d => ReturnsOk("reflection_measure")
           /\ dens'.transmission_d # dens.transmission_d
                 => ReturnsOk("transmission_measure")
         ]_vars

\* a reflection measurement has stored its density after a call that left
\* both stored values NaN
C38_Witness ==
    /\ dm.pc = "returned"
    /\ dm.fn = "reflection_measure"
    /\ dm.result = "DENSITOMETER_OK"
    /\ dm.prev.fn # "none"
    /\ dm.before.dens = DensInit
    /\ dens.reflection_d # NaN
    /\ dens.transmission_d = NaN

----------------------------------------------------------------------------
(* Properties of the measured value *)

MeasurementUsesMeasValue ==
    (dm.pc = "returned" /\ dm.stored) =>
        \E p \in {"cal_reflection", "cal_transmission"} :
            \E f \in DOMAIN settings[p] :
                settings[p][f] = MeasValue(dm.ch0_basic, dm.ch1_basic)

----------------------------------------------------------------------------
(* Properties of gaussEliminationLS *)

QZero == Coef(0, 1)

\* after the pivoting pass for column i no row from i on has a larger entry
\* in column i than row i
PivotIsLargest(i) ==
    \A k \in i..2 :
        ~QAbsLt(pf.out.pivoted[i + 1][i][i], pf.out.pivoted[i + 1][k][i])

\* after the elimination for column i every row below i has zero in column i
ColumnCleared(i) == \A k \in (i + 1)..2 : pf.out.eliminated[i + 1][k][i] = QZero

\* C40: in gaussEliminationLS, after the pivoting pass for column i the
\* pivot a[i][i] has the largest magnitude of the entries of column i in the
\* rows i..m-1, and the elimination leaves zero in column i of every row
\* below i.
C40_PivotLargestColumnCleared ==
    PfDone("gaussEliminationLS") =>
        \A i \in 0..1 : PivotIsLargest(i) /\ ColumnCleared(i)

\* the pivot of column i is a finite number other than zero
PivotUsable(i) ==
    LET p == pf.out.pivoted[i + 1][i][i] IN p.den # 0 /\ p.num # 0

\* what holds: the pivot is the largest entry, and the column is cleared
\* when the pivot is a finite number other than zero
ColumnClearedUnlessPivotZero ==
    PfDone("gaussEliminationLS") =>
        \A i \in 0..1 :
            /\ PivotIsLargest(i)
            /\ PivotUsable(i) => ColumnCleared(i)

\* a column that is zero from row i on: 0 / 0 makes the rows below NaN
ZeroPivotLeavesNaN ==
    /\ PfDone("gaussEliminationLS")
    /\ pf.out.pivoted[2][1][1] = QZero
    /\ pf.out.eliminated[2][2][1] = CoefNaN
    /\ pf.out.x[0] = CoefNaN

\* rows were swapped and the system solved
SwappedAndSolved ==
    /\ PfDone("gaussEliminationLS")
    /\ pf.out.pivoted[1][0] # pf.arg[0]
    /\ ColumnCleared(0) /\ ColumnCleared(1)
    /\ \A i \in 0..2 : pf.out.x[i].den # 0

====
